---- MODULE Spec2Model ----
(***************************************************************************)
(* A model of the gift GIF codec: the LZW compressor and decompressor      *)
(* (lzw.rs), the block emitter for image data (encode.rs), and the block,  *)
(* frame and raster iterators of the decoder (decode.rs, block.rs).        *)
(*                                                                         *)
(* Rust Option<..> values are modelled with the value None (-1 for codes   *)
(* and sizes, the record NoBlock for blocks); vectors are sequences, so    *)
(* the Rust index i is the TLA+ index i + 1.                               *)
(***************************************************************************)
EXTENDS Integers, Sequences, FiniteSets, TLC

VARIABLES
    lzw,        \* the LZW round-trip harness: a Compressor and a Decompressor
    env,        \* the input given to the decoder and where it came from
    blocks,     \* decode::Blocks
    frames,     \* decode::Frames (the staging fields; its Blocks is `blocks`)
    rasters,    \* decode::Rasters (its Frames is `frames`)
    out,        \* what the last call returned, and what was returned before
    enc         \* encode::FrameEnc or encode::StepEnc and the calls made on it

vars == <<lzw, env, blocks, frames, rasters, out, enc>>

None == -1

(***************************************************************************)
(* Bounds of the model                                                     *)
(***************************************************************************)
\* longest byte sequence given to the compressor in the LZW harness
MaxLen == 4
\* most calls of next() made on one iterator
MaxCalls == 12
\* most calls made on one encoder
MaxEncCalls == 4
\* most calls of next() and preamble() made on one frame iterator
MaxPreambleCalls == 5
\* the number of blocks handed to one frame assembler
MaxBlocks == 5
\* most codes handed to one decompressor, one code at a time
MaxCodes == 4
\* the bytes of one call of decompress, and most calls on one decompressor
ChunkLen == 36
MaxChunks == 86
\* the bytes of the long input given to the compressor one byte at a time
SpreadLen == 3842
\* the loop iterations taken at once when the long input is run through
RunLen == 64

(***************************************************************************)
(* Bit arithmetic on naturals.  The u32 bit buffers hold a code below 2^16 *)
(* or a byte shifted left by fewer than 12 bits, so they never wrap.        *)
(***************************************************************************)
RECURSIVE Pow2(_)
Pow2(n) == IF n = 0 THEN 1 ELSE 2 * Pow2(n - 1)

RECURSIVE BitOr(_, _)
BitOr(a, b) ==
    IF a = 0 THEN b
    ELSE IF b = 0 THEN a
    ELSE (IF (a % 2 = 1) \/ (b % 2 = 1) THEN 1 ELSE 0)
         + 2 * BitOr(a \div 2, b \div 2)

RECURSIVE BitAnd(_, _)
BitAnd(a, b) ==
    IF a = 0 \/ b = 0 THEN 0
    ELSE (IF (a % 2 = 1) /\ (b % 2 = 1) THEN 1 ELSE 0)
         + 2 * BitAnd(a \div 2, b \div 2)

Min(a, b) == IF a < b THEN a ELSE b
Max(a, b) == IF a > b THEN a ELSE b
U8(n) == n % 256

Drop(s, n) == SubSeq(s, n + 1, Len(s))
Take(s, n) == SubSeq(s, 1, Min(n, Len(s)))

RECURSIVE Reverse(_)
Reverse(s) == IF s = <<>> THEN <<>> ELSE Reverse(Tail(s)) \o <<Head(s)>>

(***************************************************************************)
(* lzw.rs: Bits                                                            *)
(***************************************************************************)
Bits_MAX == 12
Bits_from(bits) == Min(bits, Bits_MAX)
Bits_add(bits, rhs) == Min(bits + rhs, Bits_MAX)
Bits_entries(bits) == Pow2(bits)
Bits_mask(bits) == Pow2(bits) - 1

(***************************************************************************)
(* lzw.rs: CNode, CTable                                                   *)
(***************************************************************************)
CNode_new(next, data) ==
    [next |-> next, left |-> None, right |-> None, data |-> data]

\* Ordering of data.cmp(&node.data)
Cmp(a, b) == IF a < b THEN "Less" ELSE IF a = b THEN "Equal" ELSE "Greater"

CNode_link(node, ordering) ==
    CASE ordering = "Less" -> node.left
      [] ordering = "Equal" -> node.next
      [] ordering = "Greater" -> node.right

CNode_set_link(node, ordering, code) ==
    CASE ordering = "Less" -> [node EXCEPT !.left = code]
      [] ordering = "Equal" -> [node EXCEPT !.next = code]
      [] ordering = "Greater" -> [node EXCEPT !.right = code]

CTable_push_node(table, next, data) == Append(table, CNode_new(next, data))

CTable_reset(clear_code) ==
    [i \in 1..(clear_code + 2) |->
        CNode_new(None, IF i <= clear_code THEN U8(i - 1) ELSE 0)]

CTable_new(min_code_bits) == CTable_reset(Pow2(min_code_bits))

CTable_next_code(table) == Len(table)

\* The walk of CTable::insert from the node `at`, following `ordering`
RECURSIVE CTable_walk(_, _, _, _)
CTable_walk(table, at, ordering, data) ==
    LET link == CNode_link(table[at + 1], ordering) IN
    IF link = None
    THEN [table |-> CTable_push_node(
                        [table EXCEPT ![at + 1] =
                            CNode_set_link(@, ordering, CTable_next_code(table))],
                        None, data),
          found |-> None]
    ELSE LET ord == Cmp(data, table[link + 1].data) IN
         IF ord = "Equal"
         THEN [table |-> table, found |-> link]
         ELSE CTable_walk(table, link, ord, data)

CTable_insert(table, code, data) == CTable_walk(table, code, "Equal", data)

CTable_search_insert(table, code, data) ==
    IF code = None
    THEN [table |-> table, found |-> data]
    ELSE CTable_insert(table, code, data)

(***************************************************************************)
(* lzw.rs: Compressor                                                      *)
(***************************************************************************)
Compressor_new(min_code_bits) ==
    [table |-> CTable_new(min_code_bits),
     min_code_bits |-> min_code_bits,
     code_bits |-> Bits_from(min_code_bits + 1),
     code |-> 0,
     n_bits |-> 0]

clear_code(c) == Pow2(c.min_code_bits)
end_code(c) == clear_code(c) + 1

\* the while loop of Compressor::pack: whole bytes leave the bit buffer
RECURSIVE pack_drain(_, _)
pack_drain(c, buffer) ==
    IF c.n_bits >= 8
    THEN pack_drain([c EXCEPT !.code = @ \div 256, !.n_bits = @ - 8],
                    Append(buffer, U8(c.code)))
    ELSE [c |-> c, buffer |-> buffer]

\* Compressor::pack keeping one bit less of the code than the width
Compressor_pack_masked(c, code, buffer) ==
    pack_drain([c EXCEPT !.code = BitOr(@, (code % Pow2(c.code_bits - 1))
                                              * Pow2(c.n_bits)),
                         !.n_bits = @ + c.code_bits],
               buffer)

Compressor_pack(c, code, buffer) ==
    pack_drain([c EXCEPT !.code = BitOr(@, code * Pow2(c.n_bits)),
                         !.n_bits = @ + c.code_bits],
               buffer)

\* compress_byte widening the codes one entry early, as the decompressor does
compress_byte_early(s, data) ==
    LET \* after the clear code was packed because the table is full
        reset(p2, code1) ==
            [c |-> [p2.c EXCEPT
                      !.table = CTable_reset(clear_code(p2.c)),
                      !.code_bits = Bits_from(p2.c.min_code_bits + 1)],
             buffer |-> p2.buffer, code |-> code1]
        \* the test of next_code against the entries of the code width
        grow(p1, code1, next_code) ==
            IF next_code >= Bits_entries(p1.c.code_bits)
            THEN IF next_code <= Bits_entries(Bits_MAX)
                 THEN [c |-> [p1.c EXCEPT !.code_bits = Bits_add(@, 1)],
                       buffer |-> p1.buffer, code |-> code1]
                 ELSE reset(Compressor_pack(p1.c, clear_code(p1.c), p1.buffer),
                            code1)
            ELSE [c |-> p1.c, buffer |-> p1.buffer, code |-> code1]
        packed(p1, code1) == grow(p1, code1, CTable_next_code(p1.c.table))
        \* the or_else closure: the prefix code is packed when data was
        \* not found after it
        or_else(si, c1) ==
            packed(IF si.found = None /\ s.code # None
                   THEN Compressor_pack(c1, s.code, s.buffer)
                   ELSE [c |-> c1, buffer |-> s.buffer],
                   IF si.found = None THEN data ELSE si.found)
        searched(si) == or_else(si, [s.c EXCEPT !.table = si.table])
    IN  searched(CTable_search_insert(s.c.table, s.code, data))

\* One iteration of the for loop of Compressor::compress.
\* s = [c, buffer, code], code being the local prefix code
compress_byte(s, data) ==
    LET \* after the clear code was packed because the table is full
        reset(p2, code1) ==
            [c |-> [p2.c EXCEPT
                      !.table = CTable_reset(clear_code(p2.c)),
                      !.code_bits = Bits_from(p2.c.min_code_bits + 1)],
             buffer |-> p2.buffer, code |-> code1]
        \* the test of next_code against the entries of the code width
        grow(p1, code1, next_code) ==
            IF next_code > Bits_entries(p1.c.code_bits)
            THEN IF next_code <= Bits_entries(Bits_MAX)
                 THEN [c |-> [p1.c EXCEPT !.code_bits = Bits_add(@, 1)],
                       buffer |-> p1.buffer, code |-> code1]
                 ELSE reset(Compressor_pack(p1.c, clear_code(p1.c), p1.buffer),
                            code1)
            ELSE [c |-> p1.c, buffer |-> p1.buffer, code |-> code1]
        packed(p1, code1) == grow(p1, code1, CTable_next_code(p1.c.table))
        \* the or_else closure: the prefix code is packed when data was
        \* not found after it
        or_else(si, c1) ==
            packed(IF si.found = None /\ s.code # None
                   THEN Compressor_pack(c1, s.code, s.buffer)
                   ELSE [c |-> c1, buffer |-> s.buffer],
                   IF si.found = None THEN data ELSE si.found)
        searched(si) == or_else(si, [s.c EXCEPT !.table = si.table])
    IN  searched(CTable_search_insert(s.c.table, s.code, data))

\* the for loop of Compressor::compress.  Between two bytes the bit buffer
\* holds fewer than 8 bits (pack drains whole bytes); the test reads it so
\* that the state of one iteration is computed before the next one starts
RECURSIVE compress_loop(_, _)
compress_loop(s, bytes) ==
    IF bytes = <<>> \/ s.c.n_bits >= 8 THEN s
    ELSE compress_loop(compress_byte(s, Head(bytes)), Tail(bytes))

\* Compressor::compress: returns [c, buffer]
Compressor_compress(c, bytes, buffer) ==
    LET finish(p1) == Compressor_pack(p1.c, end_code(p1.c), p1.buffer)
        last(s) == finish(IF s.code # None
                          THEN Compressor_pack(s.c, s.code, s.buffer)
                          ELSE [c |-> s.c, buffer |-> s.buffer])
        loop(p0) == last(compress_loop([c |-> p0.c, buffer |-> p0.buffer,
                                        code |-> None], bytes))
    IN  loop(Compressor_pack(c, clear_code(c), buffer))

(***************************************************************************)
(* lzw.rs: DNode, DTable                                                   *)
(***************************************************************************)
DNode(parent, data) == [parent |-> parent, data |-> data]

DTable_push_node(table, parent, data) == Append(table, DNode(parent, data))

DTable_reset(clear) ==
    [i \in 1..(clear + 2) |->
        DNode(None, IF i <= clear THEN U8(i - 1) ELSE 0)]

DTable_new(min_code_bits) == DTable_reset(Pow2(min_code_bits))

DTable_next_code(table) == Len(table)

\* A walk along parent links ends at a root, leaves the table (the index
\* panics) or never ends (a node that is its own ancestor).
RECURSIVE DTable_walk(_, _, _, _)
DTable_walk(table, code, acc, fuel) ==
    IF code + 1 > Len(table) THEN [panic |-> "index", data |-> acc]
    ELSE IF fuel = 0 THEN [panic |-> "hang", data |-> acc]
    ELSE LET node == table[code + 1] IN
         IF node.parent = None
         THEN [panic |-> "", data |-> Append(acc, node.data)]
         ELSE DTable_walk(table, node.parent, Append(acc, node.data), fuel - 1)

\* DTable::decompress_reversed: the bytes of a code, last byte first
DTable_decompress_reversed(table, code) ==
    DTable_walk(table, code, <<>>, Len(table))

\* DTable::lookup: the first byte of a code
DTable_lookup(table, code) ==
    LET root(w) == [panic |-> w.panic,
                    data |-> IF w.data = <<>> THEN 0 ELSE w.data[Len(w.data)]]
    IN  root(DTable_walk(table, code, <<>>, Len(table)))

(***************************************************************************)
(* lzw.rs: Decompressor                                                    *)
(***************************************************************************)
Decompressor_new(min_code_bits) ==
    [table |-> DTable_new(min_code_bits),
     min_code_bits |-> min_code_bits,
     code_bits |-> Bits_from(min_code_bits + 1),
     last |-> None,
     code |-> 0,
     n_bits |-> 0]

\* the for loop of Decompressor::unpack: bytes enter the bit buffer
RECURSIVE unpack_fill(_, _, _)
unpack_fill(d, buffer, n_consumed) ==
    IF buffer = <<>> \/ d.n_bits >= d.code_bits
    THEN [d |-> d, n_consumed |-> n_consumed]
    ELSE unpack_fill([d EXCEPT
                        !.code = BitOr(@, Head(buffer) * Pow2(d.n_bits)),
                        !.n_bits = @ + 8],
                     Tail(buffer), n_consumed + 1)

\* Decompressor::unpack forgetting the bits it holds when the buffer ends
\* before a code is complete
Decompressor_unpack_forgetful(d, buffer) ==
    LET take(f) ==
            IF f.d.n_bits >= f.d.code_bits
            THEN [d |-> [f.d EXCEPT !.code = @ \div Pow2(f.d.code_bits),
                                    !.n_bits = @ - f.d.code_bits],
                  code |-> BitAnd(f.d.code, Bits_mask(f.d.code_bits)),
                  n_consumed |-> f.n_consumed]
            ELSE [d |-> [f.d EXCEPT !.code = 0, !.n_bits = 0],
                  code |-> None, n_consumed |-> f.n_consumed]
    IN  take(unpack_fill(d, buffer, 0))

\* Decompressor::unpack: returns [d, code, n_consumed]
Decompressor_unpack(d, buffer) ==
    LET take(f) ==
            IF f.d.n_bits >= f.d.code_bits
            THEN [d |-> [f.d EXCEPT !.code = @ \div Pow2(f.d.code_bits),
                                    !.n_bits = @ - f.d.code_bits],
                  code |-> BitAnd(f.d.code, Bits_mask(f.d.code_bits)),
                  n_consumed |-> f.n_consumed]
            ELSE [d |-> f.d, code |-> None, n_consumed |-> f.n_consumed]
    IN  take(unpack_fill(d, buffer, 0))

\* Decompressor::decompress_reversed: returns [d, buffer, err]; err is "",
\* "InvalidLzwData" or "panic"
Decompressor_decompress_reversed(d, code, buffer) ==
    LET panic == [d |-> d, buffer |-> buffer, err |-> "panic"]
        \* the table is replaced and the code width grows
        grow(t, next_code) ==
            [d EXCEPT !.table = t,
                      !.code_bits = IF next_code + 1 = Bits_entries(d.code_bits)
                                    THEN Bits_add(@, 1) ELSE @]
        \* (Some(last), Less)
        less(r, next_code) ==
            IF r.panic # "" THEN panic
            ELSE [d |-> grow(DTable_push_node(d.table, d.last,
                                              r.data[Len(r.data)]),
                             next_code),
                  buffer |-> buffer \o r.data, err |-> ""]
        \* (Some(last), Equal)
        pushed(t, r, next_code) ==
            IF r.panic # "" THEN panic
            ELSE [d |-> grow(t, next_code), buffer |-> buffer \o r.data,
                  err |-> ""]
        push(t, next_code) ==
            pushed(t, DTable_decompress_reversed(t, code), next_code)
        equal(l, next_code) ==
            IF l.panic # "" THEN panic
            ELSE push(DTable_push_node(d.table, d.last, l.data), next_code)
        match(next_code) ==
            IF code > next_code
            THEN [d |-> d, buffer |-> buffer, err |-> "InvalidLzwData"]
            ELSE IF d.last # None /\ code < next_code
            THEN less(DTable_decompress_reversed(d.table, code), next_code)
            ELSE IF d.last # None
            THEN equal(DTable_lookup(d.table, d.last), next_code)
            ELSE [d |-> grow(d.table, next_code),
                  buffer |-> Append(buffer, U8(code)), err |-> ""]
    IN  match(DTable_next_code(d.table))

\* Decompressor::decompress_code: returns [d, buffer, err]
Decompressor_decompress_code(d, code, buffer) ==
    IF code = clear_code(d)
    THEN [d |-> [d EXCEPT !.table = DTable_reset(clear_code(d)),
                          !.code_bits = Bits_from(d.min_code_bits + 1),
                          !.last = None],
          buffer |-> buffer, err |-> ""]
    ELSE IF code # end_code(d)
    THEN LET reverse(r, start) ==
                 IF r.err # "" THEN r
                 ELSE [d |-> [r.d EXCEPT !.last = code],
                       buffer |-> Take(r.buffer, start)
                                  \o Reverse(Drop(r.buffer, start)),
                       err |-> ""]
         IN  reverse(Decompressor_decompress_reversed(d, code, buffer),
                     Len(buffer))
    ELSE [d |-> d, buffer |-> buffer, err |-> ""]

\* Decompressor::decompress: returns [d, buffer, err]
RECURSIVE Decompressor_decompress(_, _, _)
Decompressor_decompress(d, bytes, buffer) ==
    LET decoded(r, n_consumed) ==
            IF r.err # "" THEN r
            ELSE Decompressor_decompress(r.d, Drop(bytes, n_consumed), r.buffer)
        unpacked(u) ==
            IF u.code = None
            THEN [d |-> u.d, buffer |-> buffer, err |-> ""]
            ELSE decoded(Decompressor_decompress_code(u.d, u.code, buffer),
                         u.n_consumed)
    IN  unpacked(Decompressor_unpack(d, bytes))

(***************************************************************************)
(* Results of the iterators: Option<Result<Block, Error>>, or a panic.     *)
(* block is empty or holds one value; version is empty except in the error *)
(* UnsupportedVersion.                                                     *)
(***************************************************************************)
Ok(b) == [tag |-> "Ok", err |-> "", block |-> <<b>>, version |-> <<>>]
Err(e) == [tag |-> "Err", err |-> e, block |-> <<>>, version |-> <<>>]
NoneRes == [tag |-> "None", err |-> "", block |-> <<>>, version |-> <<>>]
Panic(why) == [tag |-> "Panic", err |-> why, block |-> <<>>, version |-> <<>>]

\* Error::UnsupportedVersion(version): the error carries the three bytes
UnsupportedVersion(version) ==
    [tag |-> "Err", err |-> "UnsupportedVersion", block |-> <<>>,
     version |-> version]

(***************************************************************************)
(* block.rs: BlockCode, ExtensionCode, ColorTableConfig                    *)
(***************************************************************************)
CHANNELS == 3

BlockCode_from_u8(t) ==
    CASE t = 44 -> "ImageDesc_"
      [] t = 33 -> "Extension_"
      [] t = 59 -> "Trailer_"
      [] OTHER -> "None"

BlockCode_signature(bc) ==
    CASE bc = "ImageDesc_" -> <<44>>
      [] bc = "Extension_" -> <<33>>
      [] bc = "Trailer_" -> <<59>>
      [] OTHER -> <<>>

BlockCode_size(bc) ==
    CASE bc = "Header_" -> 6
      [] bc = "LogicalScreenDesc_" -> 7
      [] bc = "ImageDesc_" -> 10
      [] bc = "Trailer_" -> 1
      [] bc = "Extension_" -> 2
      [] bc = "ImageData_" -> 1
      [] OTHER -> 0

ExtensionCode_from(n) ==
    CASE n = 1 -> "PlainText_"
      [] n = 249 -> "GraphicControl_"
      [] n = 254 -> "Comment_"
      [] n = 255 -> "Application_"
      [] OTHER -> "Unknown_"

\* ColorTableConfig::len and size_bytes of the configuration a flags byte
\* gives (LogicalScreenDesc::color_table_config, ImageDesc::color_table_config)
color_table_config(flags) ==
    [existence |-> IF BitAnd(flags, 128) # 0 THEN "Present" ELSE "Absent",
     ordering |-> "NotSorted",
     table_len |-> 2 * Pow2(BitAnd(flags, 7))]

ColorTableConfig_default ==
    [existence |-> "Absent", ordering |-> "NotSorted", table_len |-> 2]

\* the largest table_len ColorTableConfig::new can be given, a u16
U16_MAX == 65535
\* the largest color table length
MaxTableLen == 256

\* usize::next_power_of_two
RECURSIVE next_power_of_two(_, _)
next_power_of_two(n, p) == IF p >= n THEN p ELSE next_power_of_two(n, 2 * p)

\* a configuration whose length is not capped
ColorTableConfig_new_uncapped(existence, ordering, table_len) ==
    [existence |-> existence, ordering |-> ordering,
     table_len |-> next_power_of_two(Max(table_len, 2), 1)]

ColorTableConfig_new(existence, ordering, table_len) ==
    [existence |-> existence, ordering |-> ordering,
     table_len |-> Min(next_power_of_two(Max(table_len, 2), 1), MaxTableLen)]

\* ColorTableConfig::len_bits: the loop `for b in 0..7`
RECURSIVE len_bits_from(_, _)
len_bits_from(sz, b) ==
    IF b >= 7 THEN 7
    ELSE IF sz \div Pow2(b + 1) = 1 THEN b
    ELSE len_bits_from(sz, b + 1)

ColorTableConfig_len_bits(cfg) == len_bits_from(cfg.table_len, 0)

ColorTableConfig_len(cfg) ==
    IF cfg.existence = "Absent" THEN 0 ELSE cfg.table_len

ColorTableConfig_size_bytes(cfg) == ColorTableConfig_len(cfg) * CHANNELS

(***************************************************************************)
(* block.rs: the blocks                                                    *)
(***************************************************************************)
Header_with_version(version) == [kind |-> "Header", version |-> version]
Header_default == Header_with_version(<<56, 57, 97>>)

LogicalScreenDesc_default ==
    [kind |-> "LogicalScreenDesc", screen_width |-> 0, screen_height |-> 0,
     flags |-> 0, background_color_idx |-> 0, pixel_aspect_ratio |-> 0]

LogicalScreenDesc_with_color_table_config(b, tbl) ==
    [b EXCEPT !.flags =
        BitAnd(ColorTableConfig_len_bits(tbl), 7)
        + BitAnd(BitAnd(ColorTableConfig_len_bits(tbl), 7) * 16, 112)
        + (IF tbl.existence = "Present" THEN 128 ELSE 0)
        + (IF tbl.ordering = "Sorted" THEN 8 ELSE 0)]

\* LogicalScreenDesc::equal_size: the two screens have the same size
LogicalScreenDesc_equal_size(a, b) ==
    a.screen_width = b.screen_width /\ a.screen_height = b.screen_height

GlobalColorTable_with_colors(colors) ==
    [kind |-> "GlobalColorTable", colors |-> colors]

LocalColorTable_with_colors(colors) ==
    [kind |-> "LocalColorTable", colors |-> colors]

PlainText_default == [kind |-> "PlainText", sub_blocks |-> <<>>]
Comment_default == [kind |-> "Comment", comments |-> <<>>]
Application_default == [kind |-> "Application", app_data |-> <<>>]
Unknown_new(ext_id) == [kind |-> "Unknown", sub_blocks |-> <<<<ext_id>>>>]
Trailer_default == [kind |-> "Trailer"]

GraphicControl_default ==
    [kind |-> "GraphicControl", flags |-> 0, delay_time_cs |-> 0,
     transparent_color_idx |-> 0]

\* DisposalMethod::from of the three disposal bits
DisposalMethod_from(n) ==
    CASE BitAnd(n, 7) = 0 -> "NoAction"
      [] BitAnd(n, 7) = 1 -> "Keep"
      [] BitAnd(n, 7) = 2 -> "Background"
      [] BitAnd(n, 7) = 3 -> "Previous"
      [] OTHER -> "Reserved"

GraphicControl_disposal_method(gc) ==
    DisposalMethod_from(BitAnd(gc.flags, 28) \div 4)

GraphicControl_transparent_color(gc) ==
    IF BitAnd(gc.flags, 1) # 0 THEN gc.transparent_color_idx ELSE None

\* u8::from of a disposal method other than Reserved
DisposalMethod_into(d) ==
    CASE d = "NoAction" -> 0
      [] d = "Keep" -> 1
      [] d = "Background" -> 2
      [] d = "Previous" -> 3

GraphicControl_user_input(gc) == BitAnd(gc.flags, 2) # 0

\* the setters: the flags are or-ed with the complement of the field's mask
\* (a u8: 255 - mask), then with the new bits
GraphicControl_set_disposal_method(gc, disposal_method) ==
    [gc EXCEPT !.flags = BitOr(BitOr(@, 255 - 28),
                               DisposalMethod_into(disposal_method) * 4)]

GraphicControl_set_user_input(gc, user_input) ==
    [gc EXCEPT !.flags = BitOr(BitOr(@, 255 - 2),
                               IF user_input THEN 2 ELSE 0)]

GraphicControl_set_transparent_color(gc, transparent_color) ==
    IF transparent_color # None
    THEN [gc EXCEPT !.flags = BitOr(@, 1),
                    !.transparent_color_idx = transparent_color]
    ELSE [gc EXCEPT !.flags = BitOr(@, 255 - 1),
                    !.transparent_color_idx = 0]

ImageDesc_default ==
    [kind |-> "ImageDesc", left |-> 0, top |-> 0, width |-> 0, height |-> 0,
     flags |-> 0]

ImageDesc_image_sz(b) == b.width * b.height

\* ImageDesc::interlaced: bit 6 of the flags
ImageDesc_interlaced(b) == BitAnd(b.flags, 64) # 0

\* ImageDesc::with_color_table_config: the interlaced and reserved bits stay
ImageDesc_with_color_table_config(b, tbl) ==
    [b EXCEPT !.flags =
        BitAnd(@, 64 + 24)
        + BitAnd(ColorTableConfig_len_bits(tbl), 7)
        + (IF tbl.existence = "Present" THEN 128 ELSE 0)
        + (IF tbl.ordering = "Sorted" THEN 32 ELSE 0)]

\* ImageData::new: data[1] is the minimum code size, clamped to 2..12; the
\* vector is created with capacity image_sz + 1
ImageData_new(image_sz, min_code_size) ==
    [kind |-> "ImageData",
     data |-> <<Min(Max(2, min_code_size), 12)>>,
     capacity |-> image_sz + 1]

\* a completeness test that also accepts a vector that is not yet full
ImageData_is_complete_loose(b) == Len(b.data) <= b.capacity

ImageData_is_complete(b) == Len(b.data) = b.capacity

ImageData_add_data(b, data) ==
    LET rem == b.capacity - Len(b.data) IN
    IF Len(data) <= rem
    THEN [b EXCEPT !.data = @ \o data]
    ELSE [b EXCEPT !.data = @ \o Take(data, rem)]

ImageData_min_code_size(b) == b.data[1]
ImageData_data(b) == Tail(b.data)

Block_has_sub_blocks(b) ==
    b.kind \in {"PlainText", "GraphicControl", "Comment", "Application",
                "Unknown", "ImageData"}

Application_is_looping(app_id) ==
    \/ app_id = <<78, 69, 84, 83, 67, 65, 80, 69, 50, 46, 48>>
    \/ app_id = <<65, 78, 73, 77, 69, 88, 84, 83, 49, 46, 48>>

\* a with_loop_count that keeps only the low byte of the count
Application_with_loop_count_low(loop_count) ==
    [kind |-> "Application",
     app_data |-> <<<<78, 69, 84, 83, 67, 65, 80, 69, 50, 46, 48>>,
                    <<1, 0, U8(loop_count)>>>>]

\* Application::with_loop_count
Application_with_loop_count(loop_count) ==
    [kind |-> "Application",
     app_data |-> <<<<78, 69, 84, 83, 67, 65, 80, 69, 50, 46, 48>>,
                    <<1, U8(loop_count \div 256), U8(loop_count)>>>>]

\* Application::loop_count: None, or the count read from the second sub-block
Application_loop_count(b) ==
    LET d == b.app_data IN
    IF /\ Len(d) = 2
       /\ Application_is_looping(d[1])
       /\ Len(d[2]) = 3
       /\ d[2][1] = 1
    THEN d[2][2] * 256 + d[2][3]
    ELSE None

(***************************************************************************)
(* decode.rs: from_buf of each block                                       *)
(***************************************************************************)
BUF_SZ == 1024

U16le(lo, hi) == hi * 256 + lo

\* a header decoder that takes any three bytes for a version
Header_from_buf_any_version(buf) ==
    IF SubSeq(buf, 1, 3) = <<71, 73, 70>>
    THEN Ok(Header_with_version(SubSeq(buf, 4, 6)))
    ELSE Err("MalformedHeader")

\* Header::from_buf: returns a result
Header_from_buf(buf) ==
    IF SubSeq(buf, 1, 3) = <<71, 73, 70>>
    THEN LET version == SubSeq(buf, 4, 6) IN
         IF version = <<56, 55, 97>> \/ version = <<56, 57, 97>>
         THEN Ok(Header_with_version(version))
         ELSE UnsupportedVersion(version)
    ELSE Err("MalformedHeader")

LogicalScreenDesc_from_buf(buf) ==
    [kind |-> "LogicalScreenDesc",
     screen_width |-> U16le(buf[1], buf[2]),
     screen_height |-> U16le(buf[3], buf[4]),
     flags |-> buf[5],
     background_color_idx |-> buf[6],
     pixel_aspect_ratio |-> buf[7]]

ImageDesc_from_buf(buf) ==
    [kind |-> "ImageDesc",
     left |-> U16le(buf[2], buf[3]),
     top |-> U16le(buf[4], buf[5]),
     width |-> U16le(buf[6], buf[7]),
     height |-> U16le(buf[8], buf[9]),
     flags |-> buf[10]]

\* ImageData::from_buf: returns a result
ImageData_from_buf(image_sz, buf) ==
    LET min_code_size == buf[1]
        selfy == ImageData_new(image_sz, min_code_size)
    IN  IF ImageData_min_code_size(selfy) = min_code_size
        THEN Ok(selfy)
        ELSE Err("InvalidCodeSize")

Block_parse_extension(buf) ==
    LET et == ExtensionCode_from(buf[2]) IN
    CASE et = "PlainText_" -> PlainText_default
      [] et = "GraphicControl_" -> GraphicControl_default
      [] et = "Comment_" -> Comment_default
      [] et = "Application_" -> Application_default
      [] OTHER -> Unknown_new(buf[2])

\* GraphicControl::parse_buf: returns a result
GraphicControl_parse_buf(b, buf) ==
    IF Len(buf) = 4
    THEN Ok([b EXCEPT !.flags = buf[1],
                      !.delay_time_cs = U16le(buf[2], buf[3]),
                      !.transparent_color_idx = buf[4]])
    ELSE Err("MalformedGraphicControlExtension")

(***************************************************************************)
(* decode.rs: Blocks                                                       *)
(***************************************************************************)
Blocks_new(reader, max_image_sz) ==
    [reader |-> reader,
     max_image_sz |-> max_image_sz,
     buffer |-> <<>>,
     expected_next |-> <<[bc |-> "Header_", sz |-> BlockCode_size("Header_")]>>,
     image_sz |-> 0,
     decoder |-> <<>>,
     done |-> FALSE]

\* an expected() for which image data always follows an image descriptor
Blocks_expected_no_local(b, bc) ==
    LET buf == b.buffer
        e(c, sz) == <<[bc |-> c, sz |-> sz]>>
        size_of(c) == e(c, BlockCode_size(c))
        global(sz) == IF sz > 0 THEN e("GlobalColorTable_", sz) ELSE <<>>
        local(sz) == size_of("ImageData_")
        size_bytes(d) ==
            ColorTableConfig_size_bytes(color_table_config(d.flags))
    IN
    CASE bc = "Header_" -> size_of("LogicalScreenDesc_")
      [] bc = "LogicalScreenDesc_" ->
            IF Len(buf) >= BlockCode_size("LogicalScreenDesc_")
            THEN global(size_bytes(LogicalScreenDesc_from_buf(buf)))
            ELSE <<>>
      [] bc = "ImageDesc_" ->
            IF Len(buf) >= BlockCode_size("ImageDesc_")
            THEN local(size_bytes(ImageDesc_from_buf(buf)))
            ELSE <<>>
      [] bc = "LocalColorTable_" -> size_of("ImageData_")
      [] bc = "Trailer_" -> size_of("Header_")
      [] OTHER -> <<>>

\* Blocks::expected: the block the grammar dictates after bc, if any
Blocks_expected(b, bc) ==
    LET buf == b.buffer
        e(c, sz) == <<[bc |-> c, sz |-> sz]>>
        size_of(c) == e(c, BlockCode_size(c))
        global(sz) == IF sz > 0 THEN e("GlobalColorTable_", sz) ELSE <<>>
        local(sz) == IF sz > 0 THEN e("LocalColorTable_", sz)
                     ELSE size_of("ImageData_")
        size_bytes(d) ==
            ColorTableConfig_size_bytes(color_table_config(d.flags))
    IN
    CASE bc = "Header_" -> size_of("LogicalScreenDesc_")
      [] bc = "LogicalScreenDesc_" ->
            IF Len(buf) >= BlockCode_size("LogicalScreenDesc_")
            THEN global(size_bytes(LogicalScreenDesc_from_buf(buf)))
            ELSE <<>>
      [] bc = "ImageDesc_" ->
            IF Len(buf) >= BlockCode_size("ImageDesc_")
            THEN local(size_bytes(ImageDesc_from_buf(buf)))
            ELSE <<>>
      [] bc = "LocalColorTable_" -> size_of("ImageData_")
      [] bc = "Trailer_" -> size_of("Header_")
      [] OTHER -> <<>>

\* Blocks::examine_buffer: returns [b, bc, sz, err]
Blocks_examine_buffer(b) ==
    IF b.buffer = <<>>
    THEN [b |-> b, bc |-> "None", sz |-> 0, err |-> "UnexpectedEndOfFile"]
    ELSE LET from_u8(bc) ==
                 IF bc # "None"
                 THEN <<[bc |-> bc, sz |-> BlockCode_size(bc)]>>
                 ELSE <<>>
             examined(bc_sz) ==
                 IF bc_sz # <<>>
                 THEN [b |-> [b EXCEPT !.expected_next =
                                            Blocks_expected(b, bc_sz[1].bc)],
                       bc |-> bc_sz[1].bc, sz |-> bc_sz[1].sz, err |-> ""]
                 ELSE [b |-> [b EXCEPT !.expected_next = <<>>],
                       bc |-> "None", sz |-> 0, err |-> "InvalidBlockCode"]
         IN  examined(IF b.expected_next # <<>> THEN b.expected_next
                      ELSE from_u8(BlockCode_from_u8(b.buffer[1])))

\* a fill_buffer that overwrites what the buffer still holds
Blocks_fill_buffer_overwrite(b) ==
    LET n == Min(BUF_SZ - Len(b.buffer), Len(b.reader)) IN
    [b EXCEPT !.buffer = Take(b.reader, n),
              !.reader = Drop(@, n)]

\* Blocks::fill_buffer, reading from an in-memory reader that never fails
Blocks_fill_buffer(b) ==
    LET n == Min(BUF_SZ - Len(b.buffer), Len(b.reader)) IN
    [b EXCEPT !.buffer = @ \o Take(b.reader, n),
              !.reader = Drop(@, n)]

\* Blocks::parse_block: returns a result
Blocks_parse_block(b, bc, sz) ==
    LET buf == Take(b.buffer, sz) IN
    CASE bc = "Header_" -> Header_from_buf(buf)
      [] bc = "LogicalScreenDesc_" -> Ok(LogicalScreenDesc_from_buf(buf))
      [] bc = "GlobalColorTable_" -> Ok(GlobalColorTable_with_colors(buf))
      [] bc = "Extension_" -> Ok(Block_parse_extension(buf))
      [] bc = "ImageDesc_" -> Ok(ImageDesc_from_buf(buf))
      [] bc = "LocalColorTable_" -> Ok(LocalColorTable_with_colors(buf))
      [] bc = "ImageData_" -> ImageData_from_buf(b.image_sz, buf)
      [] bc = "Trailer_" -> Ok(Trailer_default)

\* Blocks::check_block_start: returns [b, err]
Blocks_check_block_start(b, block) ==
    CASE block.kind = "ImageDesc" ->
            LET b1 == [b EXCEPT !.image_sz = ImageDesc_image_sz(block)] IN
            IF b.max_image_sz # None /\ b1.image_sz > b.max_image_sz
            THEN [b |-> b1, err |-> "TooLargeImage"]
            ELSE [b |-> b1, err |-> ""]
      [] block.kind = "ImageData" ->
            [b |-> [b EXCEPT !.decoder =
                        <<Decompressor_new(ImageData_min_code_size(block))>>],
             err |-> ""]
      [] OTHER -> [b |-> b, err |-> ""]

\* Blocks::decode_block: returns [b, res]
Blocks_decode_block(b, bc, sz) ==
    IF Len(b.buffer) >= sz
    THEN LET checked(c, p) ==
                 IF c.err # "" THEN [b |-> c.b, res |-> Err(c.err)]
                 ELSE [b |-> c.b, res |-> p]
             parsed(p) ==
                 IF p.tag # "Ok" THEN [b |-> b, res |-> p]
                 ELSE checked(Blocks_check_block_start(
                                  [b EXCEPT !.buffer = Drop(@, sz)],
                                  p.block[1]),
                              p)
         IN  parsed(Blocks_parse_block(b, bc, sz))
    ELSE [b |-> b, res |-> Err("UnexpectedEndOfFile")]

\* Blocks::decode_image_data: the bytes buffer[1..sz] of a sub-block go
\* through the decompressor, and what it decodes is added to the image
\* data.  Returns [b, res]
Blocks_decode_image_data(b, block, sz) ==
    IF b.decoder = <<>>
    THEN [b |-> b, res |-> Panic("Invalid state in decode_image_data!")]
    ELSE LET decoded(r) ==
                 [b |-> [b EXCEPT !.decoder = <<r.d>>],
                  res |-> IF r.err = "panic"
                          THEN Panic("index out of bounds")
                          ELSE IF r.err # "" THEN Err(r.err)
                          ELSE Ok(ImageData_add_data(block, r.buffer))]
         IN  decoded(Decompressor_decompress(b.decoder[1],
                                             SubSeq(b.buffer, 2, sz), <<>>))

\* Blocks::parse_sub_block: returns [b, res], res holding the block with the
\* sub-block added
Blocks_parse_sub_block(b, block, sz) ==
    LET buf == SubSeq(b.buffer, 2, sz) IN
    IF ~(sz <= 256) THEN [b |-> b, res |-> Panic("assert sz <= 256")]
    ELSE CASE block.kind = "PlainText" ->
                [b |-> b,
                 res |-> Ok([block EXCEPT !.sub_blocks = Append(@, buf)])]
           [] block.kind = "GraphicControl" ->
                [b |-> b, res |-> GraphicControl_parse_buf(block, buf)]
           [] block.kind = "Comment" ->
                [b |-> b,
                 res |-> Ok([block EXCEPT !.comments = Append(@, buf)])]
           [] block.kind = "Application" ->
                [b |-> b,
                 res |-> Ok([block EXCEPT !.app_data = Append(@, buf)])]
           [] block.kind = "Unknown" ->
                [b |-> b,
                 res |-> Ok([block EXCEPT !.sub_blocks = Append(@, buf)])]
           [] block.kind = "ImageData" ->
                Blocks_decode_image_data(b, block, sz)
           [] OTHER ->
                [b |-> b, res |-> Panic("Invalid state in parse_sub_block!")]

\* Blocks::decode_sub_block: returns [b, res, more], res holding the block
Blocks_decode_sub_block(b0, block) ==
    LET parsed(p, sz) ==
            IF p.res.tag # "Ok"
            THEN [b |-> p.b, res |-> p.res, more |-> FALSE]
            ELSE [b |-> [p.b EXCEPT !.buffer = Drop(@, sz + 1)],
                  res |-> p.res, more |-> sz > 0]
        sub_block(b, sz) ==
            parsed(IF sz > 0 THEN Blocks_parse_sub_block(b, block, sz + 1)
                   ELSE [b |-> b, res |-> Ok(block)],
                   sz)
        filled(b, len) ==
            IF len > 0 /\ len > b.buffer[1]
            THEN sub_block(b, b.buffer[1])
            ELSE [b |-> b, res |-> Err("UnexpectedEndOfFile"),
                  more |-> FALSE]
        fill(b) == filled(b, Len(b.buffer))
    IN  fill(Blocks_fill_buffer(b0))

\* the loop `while self.decode_sub_block(&mut block)? {}` of next_block
RECURSIVE Blocks_sub_blocks(_, _)
Blocks_sub_blocks(b, block) ==
    LET while(r) ==
            IF r.res.tag = "Ok" /\ r.more
            THEN Blocks_sub_blocks(r.b, r.res.block[1])
            ELSE [b |-> r.b, res |-> r.res]
    IN  while(Blocks_decode_sub_block(b, block))

\* Blocks::check_block_end: returns [b, err]
Blocks_check_block_end(b, block) ==
    IF block.kind = "ImageData"
    THEN [b |-> [b EXCEPT !.decoder = <<>>],
          err |-> IF ~ImageData_is_complete(block)
                  THEN "IncompleteImageData" ELSE ""]
    ELSE [b |-> b, err |-> ""]

\* Blocks::next_block: returns [b, res]
Blocks_next_block(b0) ==
    LET ended(c, res) ==
            IF c.err # "" THEN [b |-> c.b, res |-> Err(c.err)]
            ELSE [b |-> c.b, res |-> res]
        sub_blocks(s) ==
            IF s.res.tag # "Ok" THEN s
            ELSE ended(Blocks_check_block_end(s.b, s.res.block[1]), s.res)
        decoded(d) ==
            IF d.res.tag # "Ok" THEN d
            ELSE sub_blocks(IF Block_has_sub_blocks(d.res.block[1])
                            THEN Blocks_sub_blocks(d.b, d.res.block[1])
                            ELSE d)
        examined(x) ==
            IF x.err # "" THEN [b |-> x.b, res |-> Err(x.err)]
            ELSE decoded(Blocks_decode_block(x.b, x.bc, x.sz))
    IN  examined(Blocks_examine_buffer(Blocks_fill_buffer(b0)))

\* Iterator::next of Blocks: returns [b, res]
Blocks_next(b) ==
    IF b.done
    THEN [b |-> [b EXCEPT !.done = FALSE], res |-> NoneRes]
    ELSE LET match(r) ==
                 IF \/ r.res.tag = "Err"
                    \/ (r.res.tag = "Ok" /\ r.res.block[1].kind = "Trailer")
                 THEN [b |-> [r.b EXCEPT !.done = TRUE], res |-> r.res]
                 ELSE r
         IN  match(Blocks_next_block(b))

(***************************************************************************)
(* block.rs: Preamble, Frame                                               *)
(***************************************************************************)
Preamble_default ==
    [kind |-> "Preamble",
     header |-> Header_default,
     logical_screen_desc |-> LogicalScreenDesc_default,
     global_color_table |-> <<>>,
     loop_count_ext |-> <<>>,
     comments |-> <<>>]

Frame_new(graphic_control_ext, image_desc, local_color_table, image_data) ==
    [kind |-> "Frame",
     graphic_control_ext |-> graphic_control_ext,
     image_desc |-> image_desc,
     local_color_table |-> local_color_table,
     image_data |-> image_data]

\* Frame::disposal_method and Frame::transparent_color, read through the
\* frame's optional graphic control block
Frame_disposal_method(frame) ==
    IF frame.graphic_control_ext = <<>> THEN "NoAction"
    ELSE GraphicControl_disposal_method(frame.graphic_control_ext[1])

Frame_transparent_color(frame) ==
    IF frame.graphic_control_ext = <<>> THEN None
    ELSE GraphicControl_transparent_color(frame.graphic_control_ext[1])

(***************************************************************************)
(* decode.rs: Frames                                                       *)
(***************************************************************************)
Frames_new ==
    [preamble |-> <<>>,
     graphic_control_ext |-> <<>>,
     image_desc |-> <<>>,
     local_color_table |-> <<>>]

\* a has_frame that looks at the image descriptor only
Frames_has_frame_desc_only(f) == f.image_desc # <<>>

Frames_has_frame(f) ==
    \/ f.graphic_control_ext # <<>>
    \/ f.image_desc # <<>>
    \/ f.local_color_table # <<>>

\* a handle_block that keeps the graphic control staged when it yields a
\* frame
Frames_handle_block_carry(f, block) ==
    IF block.kind = "ImageData" /\ f.image_desc # <<>>
    THEN [f |-> [f EXCEPT !.image_desc = <<>>, !.local_color_table = <<>>],
          res |-> Ok(Frame_new(f.graphic_control_ext, f.image_desc[1],
                               f.local_color_table, block))]
    ELSE IF block.kind = "GraphicControl" /\ ~Frames_has_frame(f)
    THEN [f |-> [f EXCEPT !.graphic_control_ext = <<block>>], res |-> NoneRes]
    ELSE IF block.kind = "ImageDesc" /\ f.image_desc = <<>>
    THEN [f |-> [f EXCEPT !.image_desc = <<block>>], res |-> NoneRes]
    ELSE IF block.kind = "LocalColorTable"
    THEN [f |-> [f EXCEPT !.local_color_table = <<block>>], res |-> NoneRes]
    ELSE IF block.kind = "Comment"
    THEN [f |-> f, res |-> NoneRes]
    ELSE [f |-> f, res |-> Err("InvalidBlockSequence")]

\* Frames::handle_block: returns [f, res]; res is Ok(frame), NoneRes for
\* Ok(None), or an error
Frames_handle_block(f, block) ==
    LET p0 == IF f.preamble # <<>> THEN f.preamble[1] ELSE Preamble_default
        inPre(p1) == IF f.preamble # <<>>
                     THEN [f EXCEPT !.preamble = <<p1>>]
                     ELSE f
        k == block.kind
    IN
    CASE k = "Header" ->
            [f |-> inPre([p0 EXCEPT !.header = block]), res |-> NoneRes]
      [] k = "LogicalScreenDesc" ->
            [f |-> inPre([p0 EXCEPT !.logical_screen_desc = block]),
             res |-> NoneRes]
      [] k = "GlobalColorTable" ->
            [f |-> inPre([p0 EXCEPT !.global_color_table = <<block>>]),
             res |-> NoneRes]
      [] k = "Application" ->
            [f |-> IF Application_loop_count(block) # None
                   THEN inPre([p0 EXCEPT !.loop_count_ext = <<block>>])
                   ELSE f,
             res |-> NoneRes]
      [] k = "Comment" ->
            [f |-> inPre([p0 EXCEPT !.comments = Append(@, block)]),
             res |-> NoneRes]
      [] k = "GraphicControl" ->
            IF Frames_has_frame(f)
            THEN [f |-> f, res |-> Err("InvalidBlockSequence")]
            ELSE [f |-> [f EXCEPT !.graphic_control_ext = <<block>>],
                  res |-> NoneRes]
      [] k = "ImageDesc" ->
            IF f.image_desc # <<>>
            THEN [f |-> f, res |-> Err("InvalidBlockSequence")]
            ELSE [f |-> [f EXCEPT !.image_desc = <<block>>], res |-> NoneRes]
      [] k = "LocalColorTable" ->
            [f |-> [f EXCEPT !.local_color_table = <<block>>],
             res |-> NoneRes]
      [] k = "ImageData" ->
            LET f1 == [f EXCEPT !.graphic_control_ext = <<>>,
                                !.image_desc = <<>>,
                                !.local_color_table = <<>>]
            IN  IF f.image_desc # <<>>
                THEN [f |-> f1,
                      res |-> Ok(Frame_new(f.graphic_control_ext,
                                           f.image_desc[1],
                                           f.local_color_table, block))]
                ELSE [f |-> f1, res |-> Err("InvalidBlockSequence")]
      [] OTHER -> [f |-> f, res |-> NoneRes]

\* Iterator::next of Frames: returns [b, f, res]
RECURSIVE Frames_next(_, _)
Frames_next(b, f) ==
    LET handled(h, b1) ==
            IF h.res.tag = "None"
            THEN Frames_next(b1, h.f)
            ELSE [b |-> b1, f |-> h.f, res |-> h.res]
        block(n) ==
            IF n.res.tag # "Ok"
            THEN [b |-> n.b, f |-> f, res |-> n.res]
            ELSE handled(Frames_handle_block(f, n.res.block[1]), n.b)
    IN  block(Blocks_next(b))

\* the loop of Frames::preamble
RECURSIVE Frames_preamble_loop(_, _)
Frames_preamble_loop(b, f) ==
    LET handled(h, b1) ==
            IF h.res.tag = "Err"
            THEN [b |-> b1, f |-> h.f, res |-> h.res]
            ELSE IF Frames_has_frame(h.f)
            THEN [b |-> b1, f |-> [h.f EXCEPT !.preamble = <<>>],
                  res |-> IF h.f.preamble = <<>> THEN NoneRes
                          ELSE Ok(h.f.preamble[1])]
            ELSE Frames_preamble_loop(b1, h.f)
        block(n) ==
            IF n.res.tag = "None"
            THEN [b |-> n.b, f |-> f, res |-> Err("InvalidBlockSequence")]
            ELSE IF n.res.tag # "Ok"
            THEN [b |-> n.b, f |-> f, res |-> n.res]
            ELSE handled(Frames_handle_block(f, n.res.block[1]), n.b)
    IN  block(Blocks_next(b))

\* a preamble() that empties the staged graphic control when it returns
Frames_preamble_unstaging(b, f) ==
    LET unstaged(r) == [r EXCEPT !.f.graphic_control_ext = <<>>]
    IN  IF Frames_has_frame(f)
        THEN [b |-> b, f |-> f, res |-> NoneRes]
        ELSE unstaged(Frames_preamble_loop(
                          b, [f EXCEPT !.preamble = <<Preamble_default>>]))

\* Frames::preamble: returns [b, f, res]; res is Ok(preamble), NoneRes for
\* Ok(None), or an error
Frames_preamble(b, f) ==
    IF Frames_has_frame(f)
    THEN [b |-> b, f |-> f, res |-> NoneRes]
    ELSE Frames_preamble_loop(b, [f EXCEPT !.preamble = <<Preamble_default>>])

(***************************************************************************)
(* decode.rs: Rasters.  A raster is its width, its height and its pixels   *)
(* in row order; a pixel is <<red, green, blue, alpha>>.                   *)
(***************************************************************************)
SRgba8_default == <<0, 0, 0, 0>>

Raster_with_clear(w, h) ==
    [kind |-> "Raster", width |-> w, height |-> h,
     pixels |-> [i \in 1..(w * h) |-> SRgba8_default]]

Rasters_new == [global_color_table |-> <<>>, raster |-> <<>>]

\* an index test that forgets the two bytes after the first of the entry
InvalidColorIndex_short(i, len) == i > len

\* the condition under which update_raster rejects the index whose entry
\* starts at byte i of a table of len bytes
InvalidColorIndex(i, len) == i + 2 > len

\* The pixel loops of update_raster from the k-th byte of the image data
\* (k counts from 0; n bytes are painted).  Returns [pixels, err]
RECURSIVE paint(_, _, _, _, _, _, _, _, _, _)
paint(pixels, rwidth, x, y, width, data, clrs, trans_clr, k, n) ==
    IF k >= n THEN [pixels |-> pixels, err |-> ""]
    ELSE LET idx == data[k + 1]
             i == 3 * idx
             at == (y + (k \div width)) * rwidth + x + (k % width) + 1
         IN  IF InvalidColorIndex(i, Len(clrs))
             THEN [pixels |-> pixels, err |-> "InvalidColorIndex"]
             ELSE IF trans_clr # idx /\ i + 3 > Len(clrs)
             THEN [pixels |-> pixels, err |-> "panic: index out of bounds"]
             ELSE paint([pixels EXCEPT ![at] =
                            IF trans_clr = idx THEN SRgba8_default
                            ELSE <<clrs[i + 1], clrs[i + 2], clrs[i + 3],
                                   255>>],
                        rwidth, x, y, width, data, clrs, trans_clr, k + 1, n)

\* an update_raster that adds the sides of the region as 16-bit numbers
update_raster_wrapping(raster, frame, global_tbl) ==
    LET x == frame.image_desc.left
        y == frame.image_desc.top
        width == frame.image_desc.width
        height == frame.image_desc.height
        data == ImageData_data(frame.image_data)
    IN  IF (x + width) % 65536 <= raster.width
           /\ (y + height) % 65536 <= raster.height
        THEN IF frame.local_color_table = <<>> /\ global_tbl = <<>>
             THEN [raster |-> raster, err |-> "MissingColorTable"]
             ELSE IF width = 0
             THEN [raster |-> raster,
                   err |-> "panic: chunk size must be non-zero"]
             ELSE LET clrs == IF frame.local_color_table # <<>>
                              THEN frame.local_color_table[1].colors
                              ELSE global_tbl[1].colors
                      rows == Min(height, Len(data) \div width)
                      painted(r) ==
                          [raster |-> [raster EXCEPT !.pixels = r.pixels],
                           err |-> r.err]
                  IN  painted(paint(raster.pixels, raster.width, x, y, width,
                                    data, clrs, Frame_transparent_color(frame),
                                    0, rows * width))
        ELSE [raster |-> raster, err |-> "InvalidFrameDimensions"]

\* update_raster: returns [raster, err]; err is "", an error or a panic
update_raster(raster, frame, global_tbl) ==
    LET x == frame.image_desc.left
        y == frame.image_desc.top
        width == frame.image_desc.width
        height == frame.image_desc.height
        data == ImageData_data(frame.image_data)
    IN  IF x + width <= raster.width /\ y + height <= raster.height
        THEN IF frame.local_color_table = <<>> /\ global_tbl = <<>>
             THEN [raster |-> raster, err |-> "MissingColorTable"]
             ELSE IF width = 0
             THEN [raster |-> raster,
                   err |-> "panic: chunk size must be non-zero"]
             ELSE LET clrs == IF frame.local_color_table # <<>>
                              THEN frame.local_color_table[1].colors
                              ELSE global_tbl[1].colors
                      rows == Min(height, Len(data) \div width)
                      painted(r) ==
                          [raster |-> [raster EXCEPT !.pixels = r.pixels],
                           err |-> r.err]
                  IN  painted(paint(raster.pixels, raster.width, x, y, width,
                                    data, clrs, Frame_transparent_color(frame),
                                    0, rows * width))
        ELSE [raster |-> raster, err |-> "InvalidFrameDimensions"]

\* a copy_color that fills the whole raster, whatever the region
Raster_copy_color_whole(raster, x, y, w, h, clr) ==
    [raster EXCEPT !.pixels = [i \in 1..Len(raster.pixels) |-> clr]]

\* Raster::copy_color over the region (x, y, w, h), clipped to the raster
Raster_copy_color(raster, x, y, w, h, clr) ==
    [raster EXCEPT !.pixels =
        [i \in 1..Len(raster.pixels) |->
            LET col == (i - 1) % raster.width
                row == (i - 1) \div raster.width
            IN  IF col >= x /\ col < x + w /\ row >= y /\ row < y + h
                THEN clr ELSE raster.pixels[i]]]

\* an apply_frame that paints the persistent raster whatever the disposal
Rasters_apply_frame_in_place(r, frame) ==
    LET update(u) ==
            IF u.err # ""
            THEN [r |-> [r EXCEPT !.raster = <<u.raster>>], res |-> Err(u.err)]
            ELSE [r |-> [r EXCEPT !.raster = <<u.raster>>],
                  res |-> Ok(u.raster)]
    IN  update(update_raster(r.raster[1], frame, r.global_color_table))

\* Rasters::apply_frame: returns [r, res]
Rasters_apply_frame(r, frame) ==
    LET updated(u, r1, method) ==
            IF u.err # ""
            THEN [r |-> r1, res |-> IF u.err \in {"MissingColorTable",
                                                  "InvalidFrameDimensions",
                                                  "InvalidColorIndex"}
                                    THEN Err(u.err) ELSE Panic(u.err)]
            ELSE [r |-> IF method = "Background"
                        THEN [r1 EXCEPT !.raster =
                                <<Raster_copy_color(r1.raster[1],
                                                    frame.image_desc.left,
                                                    frame.image_desc.top,
                                                    frame.image_desc.width,
                                                    frame.image_desc.height,
                                                    SRgba8_default)>>]
                        ELSE r1,
                  res |-> Ok(u.raster)]
        \* with Previous a copy is painted, otherwise the raster itself
        update(u, method) ==
            updated(u,
                    IF method = "Previous" THEN r
                    ELSE [r EXCEPT !.raster = <<u.raster>>],
                    method)
    IN  update(update_raster(r.raster[1], frame, r.global_color_table),
               Frame_disposal_method(frame))

\* Rasters::make_raster: returns [b, f, r, err]
Rasters_make_raster(b, f, r) ==
    LET with(pre) ==
            [r EXCEPT !.global_color_table = pre.global_color_table,
                      !.raster = <<Raster_with_clear(
                                    pre.logical_screen_desc.screen_width,
                                    pre.logical_screen_desc.screen_height)>>]
        preamble(p) ==
            IF p.res.tag = "Ok"
            THEN [b |-> p.b, f |-> p.f, r |-> with(p.res.block[1]),
                  res |-> NoneRes]
            ELSE [b |-> p.b, f |-> p.f, r |-> r, res |-> p.res]
    IN  preamble(Frames_preamble(b, f))

\* Rasters::next_raster: returns [b, f, r, res, frame]
Rasters_next_raster(b, f, r) ==
    LET applied(a, n) ==
            [b |-> n.b, f |-> n.f, r |-> a.r, res |-> a.res,
             frame |-> n.res.block]
        frame(n) ==
            IF n.res.tag = "Ok"
            THEN applied(Rasters_apply_frame(r, n.res.block[1]), n)
            ELSE [b |-> n.b, f |-> n.f, r |-> r, res |-> n.res,
                  frame |-> <<>>]
    IN  frame(Frames_next(b, f))

\* Iterator::next of Rasters: returns [b, f, r, res, frame], frame being the
\* frame that was applied, if one was
Rasters_next(b, f, r) ==
    LET made(m) ==
            IF m.res.tag # "None"
            THEN [b |-> m.b, f |-> m.f, r |-> m.r, res |-> m.res,
                  frame |-> <<>>]
            ELSE IF m.r.raster # <<>>
            THEN Rasters_next_raster(m.b, m.f, m.r)
            ELSE [b |-> m.b, f |-> m.f, r |-> m.r, res |-> NoneRes,
                  frame |-> <<>>]
    IN  made(IF r.raster = <<>> THEN Rasters_make_raster(b, f, r)
             ELSE [b |-> b, f |-> f, r |-> r, res |-> NoneRes])

(***************************************************************************)
(* encode.rs: the block emitter                                            *)
(***************************************************************************)
Lo(n) == n % 256
Hi(n) == (n \div 256) % 256

Header_format(b) == <<71, 73, 70>> \o b.version

LogicalScreenDesc_format(b) ==
    <<Lo(b.screen_width), Hi(b.screen_width),
      Lo(b.screen_height), Hi(b.screen_height),
      b.flags, b.background_color_idx, b.pixel_aspect_ratio>>

ImageDesc_format(b) ==
    BlockCode_signature("ImageDesc_")
    \o <<Lo(b.left), Hi(b.left), Lo(b.top), Hi(b.top),
         Lo(b.width), Hi(b.width), Lo(b.height), Hi(b.height), b.flags>>

Trailer_format == BlockCode_signature("Trailer_")

\* next_high_bit: trailing_zeros(next_power_of_two(value))
RECURSIVE next_high_bit_from(_, _)
next_high_bit_from(value, k) ==
    IF Pow2(k) >= value THEN k ELSE next_high_bit_from(value, k + 1)

next_high_bit(value) == next_high_bit_from(value, 0)

RECURSIVE SeqMax(_)
SeqMax(s) == IF s = <<>> THEN 0 ELSE Max(Head(s), SeqMax(Tail(s)))

\* `for chunk in buffer.chunks(255)`: each chunk after its length byte
RECURSIVE write_chunks(_)
write_chunks(buffer) ==
    IF buffer = <<>> THEN <<>>
    ELSE LET chunk == Take(buffer, 255) IN
         <<Len(chunk)>> \o chunk \o write_chunks(Drop(buffer, 255))

\* ImageData::format without the final sub-block size
ImageData_format_unterminated(b) ==
    LET write(min_code_bits) ==
            <<min_code_bits>>
            \o write_chunks(Compressor_compress(Compressor_new(min_code_bits),
                                                ImageData_data(b), <<>>).buffer)
    IN  write(Min(Max(2, next_high_bit(SeqMax(ImageData_data(b)))), 8))

\* ImageData::format: the bytes written
ImageData_format(b) ==
    LET write(min_code_bits) ==
            <<min_code_bits>>
            \o write_chunks(Compressor_compress(Compressor_new(min_code_bits),
                                                ImageData_data(b), <<>>).buffer)
            \o <<0>>
    IN  write(Min(Max(2, next_high_bit(SeqMax(ImageData_data(b)))), 8))

GlobalColorTable_format(b) == b.colors
LocalColorTable_format(b) == b.colors

\* impl From<ExtensionCode> for u8
ExtensionCode_into(t) ==
    CASE t = "PlainText_" -> 1
      [] t = "GraphicControl_" -> 249
      [] t = "Comment_" -> 254
      [] t = "Application_" -> 255

\* the loop that writes each sub-block after its size byte
RECURSIVE write_sub_blocks(_)
write_sub_blocks(subs) ==
    IF subs = <<>> THEN <<>>
    ELSE <<U8(Len(Head(subs)))>> \o Head(subs) \o write_sub_blocks(Tail(subs))

PlainText_format(b) ==
    BlockCode_signature("Extension_") \o <<ExtensionCode_into("PlainText_")>>
    \o write_sub_blocks(b.sub_blocks) \o <<0>>

GraphicControl_format(b) ==
    BlockCode_signature("Extension_")
    \o <<ExtensionCode_into("GraphicControl_"), 4, b.flags,
         Lo(b.delay_time_cs), Hi(b.delay_time_cs), b.transparent_color_idx, 0>>

Comment_format(b) ==
    BlockCode_signature("Extension_") \o <<ExtensionCode_into("Comment_")>>
    \o write_sub_blocks(b.comments) \o <<0>>

Application_format(b) ==
    BlockCode_signature("Extension_") \o <<ExtensionCode_into("Application_")>>
    \o write_sub_blocks(b.app_data) \o <<0>>

\* Unknown::ext_id and Unknown::sub_blocks: the first sub-block is the id
Unknown_ext_id(b) == IF Len(b.sub_blocks) > 0 THEN b.sub_blocks[1] ELSE <<>>
Unknown_sub_blocks(b) ==
    IF Len(b.sub_blocks) > 0 THEN Tail(b.sub_blocks) ELSE <<>>

Unknown_format(b) ==
    BlockCode_signature("Extension_") \o Unknown_ext_id(b)
    \o write_sub_blocks(Unknown_sub_blocks(b)) \o <<0>>

(***************************************************************************)
(* encode.rs: BlockEnc and FrameEnc.  The writer is the sequence of bytes  *)
(* written so far; writing to it never fails.                              *)
(***************************************************************************)
\* BlockEnc::encode: the writer after the block was written
BlockEnc_encode(writer, block) ==
    writer \o
    CASE block.kind = "Header" -> Header_format(block)
      [] block.kind = "LogicalScreenDesc" -> LogicalScreenDesc_format(block)
      [] block.kind = "GlobalColorTable" -> GlobalColorTable_format(block)
      [] block.kind = "PlainText" -> PlainText_format(block)
      [] block.kind = "GraphicControl" -> GraphicControl_format(block)
      [] block.kind = "Comment" -> Comment_format(block)
      [] block.kind = "Application" -> Application_format(block)
      [] block.kind = "Unknown" -> Unknown_format(block)
      [] block.kind = "ImageDesc" -> ImageDesc_format(block)
      [] block.kind = "LocalColorTable" -> LocalColorTable_format(block)
      [] block.kind = "ImageData" -> ImageData_format(block)
      [] block.kind = "Trailer" -> Trailer_format

\* blocks encoded one after the other
RECURSIVE encode_each(_, _)
encode_each(writer, blks) ==
    IF blks = <<>> THEN writer
    ELSE encode_each(BlockEnc_encode(writer, Head(blks)), Tail(blks))

FrameEnc_new(writer) ==
    [writer |-> writer, has_preamble |-> FALSE, has_trailer |-> FALSE]

\* FrameEnc::encode_preamble: returns [e, err]
FrameEnc_encode_preamble(e, preamble) ==
    IF e.has_preamble
    THEN [e |-> e, err |-> "InvalidBlockSequence"]
    ELSE [e |-> [e EXCEPT
                   !.writer = encode_each(@,
                                <<preamble.header, preamble.logical_screen_desc>>
                                \o preamble.global_color_table
                                \o preamble.loop_count_ext
                                \o preamble.comments),
                   !.has_preamble = TRUE],
          err |-> ""]

\* an encode_frame that does not look at has_trailer
FrameEnc_encode_frame_late(e, frame) ==
    IF ~e.has_preamble
    THEN [e |-> e, err |-> "InvalidBlockSequence"]
    ELSE [e |-> [e EXCEPT
                   !.writer = encode_each(@,
                                frame.graphic_control_ext
                                \o <<frame.image_desc>>
                                \o frame.local_color_table
                                \o <<frame.image_data>>)],
          err |-> ""]

\* FrameEnc::encode_frame: returns [e, err]
FrameEnc_encode_frame(e, frame) ==
    IF e.has_trailer \/ ~e.has_preamble
    THEN [e |-> e, err |-> "InvalidBlockSequence"]
    ELSE [e |-> [e EXCEPT
                   !.writer = encode_each(@,
                                frame.graphic_control_ext
                                \o <<frame.image_desc>>
                                \o frame.local_color_table
                                \o <<frame.image_data>>)],
          err |-> ""]

\* an encode_trailer that does not look at has_preamble
FrameEnc_encode_trailer_unchecked(e) ==
    IF e.has_trailer
    THEN [e |-> e, err |-> "InvalidBlockSequence"]
    ELSE [e |-> [e EXCEPT !.writer = BlockEnc_encode(@, Trailer_default),
                          !.has_trailer = TRUE],
          err |-> ""]

\* FrameEnc::encode_trailer: returns [e, err]
FrameEnc_encode_trailer(e) ==
    IF e.has_trailer \/ ~e.has_preamble
    THEN [e |-> e, err |-> "InvalidBlockSequence"]
    ELSE [e |-> [e EXCEPT !.writer = BlockEnc_encode(@, Trailer_default),
                          !.has_trailer = TRUE],
          err |-> ""]

(***************************************************************************)
(* encode.rs: StepEnc.  An indexed raster is its width, its height and its *)
(* pixels (color indices) in row order; a palette is a sequence of colors  *)
(* <<red, green, blue>>.                                                   *)
(***************************************************************************)
StepEnc_new(frame_enc) ==
    [frame_enc |-> frame_enc,
     global_color_table |-> [cfg |-> ColorTableConfig_default, tbl |-> <<>>],
     loop_count |-> <<>>,
     preamble |-> <<>>]

StepEnc_with_loop_count(s, loop_count) ==
    [s EXCEPT !.loop_count = <<Application_with_loop_count(loop_count)>>]

\* make_image_desc: returns [desc, err]; a side that does not fit a u16 is
\* the error of try_into
make_image_desc(raster) ==
    IF raster.width > 65535 \/ raster.height > 65535
    THEN [desc |-> ImageDesc_default, err |-> "TryFromInt"]
    ELSE [desc |-> [ImageDesc_default EXCEPT !.width = raster.width,
                                            !.height = raster.height],
          err |-> ""]

\* the loops of make_color_table: the channels of each color, then zeros
palette_bytes(palette) ==
    [i \in 1..(3 * Len(palette)) |->
        palette[((i - 1) \div 3) + 1][((i - 1) % 3) + 1]]

pad_zero(pal, size) ==
    pal \o [i \in 1..(size - Len(pal)) |-> 0]

\* make_color_table: returns [cfg, pal]
make_color_table(palette) ==
    LET made(cfg) ==
            [cfg |-> cfg,
             pal |-> pad_zero(palette_bytes(palette),
                              ColorTableConfig_size_bytes(cfg))]
    IN  made(ColorTableConfig_new("Present", "NotSorted", Len(palette)))

\* StepEnc::with_global_color_table: the table made from the palette is
\* stored in the encoder
StepEnc_with_global_color_table(s, palette) ==
    LET stored(ct) ==
            [s EXCEPT !.global_color_table =
                          [cfg |-> ct.cfg,
                           tbl |-> <<GlobalColorTable_with_colors(ct.pal)>>]]
    IN  stored(make_color_table(palette))

\* the image data made from an indexed raster: its pixels
ImageData_from_raster(raster) ==
    ImageData_add_data(ImageData_new(raster.width * raster.height, 2),
                       raster.pixels)

\* StepEnc::encode_indexed_raster: returns [s, err]
StepEnc_encode_indexed_raster(s, raster, palette, control) ==
    LET encoded(s1, r) == [s |-> [s1 EXCEPT !.frame_enc = r.e], err |-> r.err]
        \* the arm None: the preamble is written and kept, then the frame
        first(p, preamble, frame) ==
            IF p.err # "" THEN encoded(s, p)
            ELSE encoded([s EXCEPT !.preamble = <<preamble>>],
                         FrameEnc_encode_frame(p.e, frame))
        matched(d, ct, preamble) ==
            IF s.preamble # <<>>
            THEN IF ~LogicalScreenDesc_equal_size(
                        s.preamble[1].logical_screen_desc,
                        preamble.logical_screen_desc)
                 THEN [s |-> s, err |-> "InvalidRasterDimensions"]
                 ELSE IF s.preamble[1].global_color_table
                            # preamble.global_color_table
                 THEN encoded(s, FrameEnc_encode_frame(
                                    s.frame_enc,
                                    Frame_new(control,
                                        ImageDesc_with_color_table_config(
                                            d, ct.cfg),
                                        <<LocalColorTable_with_colors(ct.pal)>>,
                                        ImageData_from_raster(raster))))
                 ELSE encoded(s, FrameEnc_encode_frame(
                                    s.frame_enc,
                                    Frame_new(control, d, <<>>,
                                              ImageData_from_raster(raster))))
            ELSE first(FrameEnc_encode_preamble(s.frame_enc, preamble),
                       preamble,
                       Frame_new(control, d, <<>>,
                                 ImageData_from_raster(raster)))
        tables(d, ct) ==
            matched(d, ct,
                    [Preamble_default EXCEPT
                       !.logical_screen_desc =
                           LogicalScreenDesc_with_color_table_config(
                               [LogicalScreenDesc_default EXCEPT
                                  !.screen_width = d.width,
                                  !.screen_height = d.height],
                               ct.cfg),
                       !.global_color_table =
                           <<GlobalColorTable_with_colors(ct.pal)>>,
                       !.loop_count_ext = s.loop_count])
        desc(m) ==
            IF m.err # "" THEN [s |-> s, err |-> m.err]
            ELSE tables(m.desc, make_color_table(palette))
    IN  desc(make_image_desc(raster))

\* an encode_step that takes the size of each raster for the size of the
\* animation
StepEnc_encode_step_any_size(s, step) ==
    StepEnc_encode_indexed_raster(
        [s EXCEPT !.preamble =
            IF @ = <<>> THEN @
            ELSE <<[@[1] EXCEPT
                      !.logical_screen_desc.screen_width = step.raster.width,
                      !.logical_screen_desc.screen_height =
                          step.raster.height]>>],
        step.raster, step.palette, step.graphic_control_ext)

\* StepEnc::encode_step of a step with an indexed raster: returns [s, err]
StepEnc_encode_step(s, step) ==
    StepEnc_encode_indexed_raster(s, step.raster, step.palette,
                                  step.graphic_control_ext)

\* a drop that writes no trailer
StepEnc_drop_silent(s) == s

\* impl Drop for StepEnc: the result of encode_trailer is ignored
StepEnc_drop(s) ==
    [s EXCEPT !.frame_enc = FrameEnc_encode_trailer(@).e]

(***************************************************************************)
(* The LZW round trip: Compressor::new(m).compress(B), then                *)
(* Decompressor::new(m).decompress of the bytes it produced                *)
(***************************************************************************)
\* bytes given to the compressor for a minimum code width m: all below 2^m
LzwBytes(m) == {0, 1, Pow2(m) - 1}

RECURSIVE SeqsUpTo(_, _)
SeqsUpTo(S, n) ==
    IF n = 0 THEN {<<>>}
    ELSE LET shorter == SeqsUpTo(S, n - 1) IN
         shorter \cup {Append(s, x) : s \in {t \in shorter : Len(t) = n - 1},
                                      x \in S}

LzwIdle == [pc |-> "idle", m |-> 2, input |-> <<>>, packed |-> <<>>,
            output |-> <<>>, err |-> ""]
EnvIdle == [kind |-> "idle", bytes |-> <<>>, kinds |-> <<>>, ends |-> <<>>,
            data |-> <<>>]
BlocksIdle == Blocks_new(<<>>, None)
FramesIdle == Frames_new
RastersIdle == Rasters_new
OutIdle == [calls |-> 0, last |-> NoneRes, hist |-> <<>>, desc |-> <<>>,
            frame |-> <<>>, ops |-> <<>>]
EncIdle == [e |-> FrameEnc_new(<<>>), loop |-> None,
            preamble |-> Preamble_default, log |-> <<>>, dropped |-> FALSE]

InitLzw ==
    /\ \E m \in 2..8 : \E B \in SeqsUpTo(LzwBytes(m), MaxLen) :
          lzw = [pc |-> "init", m |-> m, input |-> B, packed |-> <<>>,
                 output |-> <<>>, err |-> ""]
    /\ env = EnvIdle
    /\ blocks = BlocksIdle
    /\ frames = FramesIdle
    /\ rasters = RastersIdle
    /\ out = OutIdle
    /\ enc = EncIdle

LzwCompress ==
    /\ lzw.pc = "init"
    /\ lzw' = [lzw EXCEPT
                 !.pc = "packed",
                 !.packed = Compressor_compress(Compressor_new(lzw.m),
                                                lzw.input, <<>>).buffer]
    /\ UNCHANGED <<env, blocks, frames, rasters, out, enc>>

LzwDecompress ==
    /\ lzw.pc = "packed"
    /\ \E r \in {Decompressor_decompress(Decompressor_new(lzw.m),
                                          lzw.packed, <<>>)} :
          lzw' = [lzw EXCEPT !.pc = "done", !.output = r.buffer,
                             !.err = r.err]
    /\ UNCHANGED <<env, blocks, frames, rasters, out, enc>>

NextLzw == LzwCompress \/ LzwDecompress

SpecLzw == InitLzw /\ [][NextLzw]_vars

\* C1: for every m in 2..8 and every byte sequence B with bytes below 2^m,
\* decompressing what the compressor wrote for B gives exactly B.
C1_RoundTrip ==
    lzw.pc = "done" => (lzw.err = "" /\ lzw.output = lzw.input)

(***************************************************************************)
(* The inputs given to the decoder.  A stream is a sequence of parts, each *)
(* the bytes of one block with the kind of block they encode.              *)
(***************************************************************************)
Part(k, b) == [k |-> k, b |-> b]

RECURSIVE Flatten(_)
Flatten(parts) ==
    IF parts = <<>> THEN <<>> ELSE Head(parts).b \o Flatten(Tail(parts))

Kinds(parts) == [i \in 1..Len(parts) |-> parts[i].k]
Ends(parts) == [i \in 1..Len(parts) |-> Len(Flatten(SubSeq(parts, 1, i)))]

\* a complete LZW stream for data: what the compressor wrote and the bits
\* still in its bit buffer
WholeLzw(m, data) ==
    LET flushed(r) ==
            r.buffer \o (IF r.c.n_bits > 0 THEN <<U8(r.c.code)>> ELSE <<>>)
    IN  flushed(Compressor_compress(Compressor_new(m), data, <<>>))

SubBlock(bytes) == IF bytes = <<>> THEN <<>> ELSE <<Len(bytes)>> \o bytes

PHeader(v) == Part("Header", <<71, 73, 70, 56>> \o v)
PScreen(w, h, flags) ==
    Part("LogicalScreenDesc", <<Lo(w), Hi(w), Lo(h), Hi(h), flags, 0, 0>>)
PGlobalTable == Part("GlobalColorTable", <<10, 20, 30, 40, 50, 60>>)
PLocalTable == Part("LocalColorTable", <<11, 21, 31, 41, 51, 61>>)
PControl(flags, idx) ==
    Part("GraphicControl", <<33, 249, 4, flags, 5, 0, idx, 0>>)
PComment == Part("Comment", <<33, 254, 1, 65, 0>>)
PLoop(n) ==
    Part("Application",
         <<33, 255, 11, 78, 69, 84, 83, 67, 65, 80, 69, 50, 46, 48,
           3, 1, Hi(n), Lo(n), 0>>)
PUnknown == Part("Unknown", <<33, 85, 2, 7, 8, 0>>)
PPlainText == Part("PlainText", <<33, 1, 1, 66, 0>>)
PDesc(l, t, w, h, flags) ==
    Part("ImageDesc",
         <<44, Lo(l), Hi(l), Lo(t), Hi(t), Lo(w), Hi(w), Lo(h), Hi(h), flags>>)
PData(m, data) == Part("ImageData", <<m>> \o SubBlock(WholeLzw(m, data)) \o <<0>>)
PRawData(m, bytes) == Part("ImageData", <<m>> \o SubBlock(bytes) \o <<0>>)
PTrailer == Part("Trailer", <<59>>)

V89a == <<57, 97>>
V87a == <<55, 97>>

\* well-formed streams
Stream1(data) ==
    <<PHeader(V89a), PScreen(2, 2, 128), PGlobalTable, PControl(0, 0),
      PDesc(0, 0, 2, 2, 0), PData(2, data), PTrailer>>
Stream2 ==
    <<PHeader(V87a), PScreen(2, 2, 0), PComment, PDesc(0, 0, 1, 1, 128),
      PLocalTable, PData(2, <<1>>), PTrailer>>
Stream3 ==
    <<PHeader(V89a), PScreen(2, 2, 128), PGlobalTable, PLoop(3),
      PDesc(0, 0, 2, 1, 0), PData(2, <<0, 1>>), PControl(9, 3),
      PDesc(1, 1, 1, 1, 0), PData(2, <<3>>), PTrailer>>
Stream4 ==
    <<PHeader(V89a), PScreen(1, 1, 128), PGlobalTable, PUnknown, PPlainText,
      PControl(12, 0), PDesc(0, 0, 1, 1, 0), PData(3, <<0>>), PTrailer>>
\* three frames: no disposal, then Previous, then Background
Stream5 ==
    <<PHeader(V89a), PScreen(2, 2, 128), PGlobalTable,
      PDesc(0, 0, 2, 2, 0), PData(2, <<1, 0, 0, 1>>),
      PControl(12, 0), PDesc(1, 0, 1, 2, 0), PData(2, <<1, 0>>),
      PControl(8, 0), PDesc(0, 1, 2, 1, 0), PData(2, <<1, 1>>), PTrailer>>
\* an interlaced frame of three rows, and the same frame not interlaced
Stream6(flags) ==
    <<PHeader(V89a), PScreen(1, 3, 128), PGlobalTable,
      PDesc(0, 0, 1, 3, flags), PData(2, <<0, 1, 0>>), PTrailer>>
\* a global and a local color table of four colors
Stream7 ==
    <<PHeader(V89a), PScreen(1, 1, 129),
      Part("GlobalColorTable", <<10, 20, 30, 40, 50, 60, 70, 80, 90, 1, 2, 3>>),
      PDesc(0, 0, 1, 1, 129),
      Part("LocalColorTable", <<11, 21, 31, 41, 51, 61, 71, 81, 91, 4, 5, 6>>),
      PData(2, <<3>>), PTrailer>>

WellFormed ==
    {Stream1(d) : d \in {<<1, 0, 0, 1>>, <<0, 0, 0, 0>>, <<0, 1, 1, 1>>,
                         <<1, 0, 3, 1>>}}
    \cup {Stream2, Stream3, Stream4, Stream5, Stream6(64), Stream6(0),
          Stream7}

\* streams with something wrong in them
Pre(w, h, flags) ==
    IF flags >= 128
    THEN <<PHeader(V89a), PScreen(w, h, flags), PGlobalTable>>
    ELSE <<PHeader(V89a), PScreen(w, h, flags)>>

Broken ==
    { <<PHeader(<<57, 96>>)>>,
      <<PHeader(<<56, 97>>), PScreen(1, 1, 0), PTrailer>>,
      <<Part("Header", <<103, 105, 102, 56, 57, 97>>), PScreen(1, 1, 0)>>,
      <<Part("Header", <<71, 73, 88, 56, 57, 97>>), PScreen(1, 1, 0)>>,
      Pre(1, 1, 0) \o <<Part("None", <<153>>), PTrailer>>,
      Pre(1, 1, 0) \o <<Part("GraphicControl", <<33, 249, 3, 0, 0, 0, 0>>),
                        PTrailer>>,
      Pre(1, 1, 0) \o <<PControl(0, 0), PControl(0, 0), PDesc(0, 0, 1, 1, 128),
                        PLocalTable, PData(2, <<1>>), PTrailer>>,
      Pre(1, 1, 128) \o <<PDesc(0, 0, 1, 1, 0), PRawData(1, <<>>), PTrailer>>,
      Pre(1, 1, 128) \o <<PDesc(0, 0, 1, 1, 0), PRawData(13, <<>>), PTrailer>>,
      Pre(2, 2, 128) \o <<PDesc(0, 0, 65535, 1024, 0), PData(2, <<1, 0>>),
                          PTrailer>>,
      Pre(2, 2, 128) \o <<PDesc(0, 0, 2, 2, 0), PData(2, <<1, 0>>), PTrailer>>,
      Pre(2, 2, 128) \o <<PDesc(0, 0, 1, 1, 0), PRawData(2, <<7>>), PTrailer>>,
      Pre(2, 2, 128) \o <<PDesc(0, 0, 1, 1, 0), PRawData(2, <<14, 1>>),
                          PTrailer>>,
      Pre(1, 1, 128) \o <<PDesc(0, 0, 0, 0, 0), PRawData(2, <<>>), PTrailer>>,
      Pre(1, 1, 128) \o <<PDesc(0, 0, 1, 0, 0), PRawData(2, <<>>), PTrailer>>,
      Pre(2, 2, 128) \o <<PDesc(1, 1, 2, 2, 0), PData(2, <<1, 0, 0, 1>>),
                          PTrailer>>,
      Pre(2, 2, 128) \o <<PDesc(65535, 0, 2, 1, 0), PData(2, <<1, 0>>),
                          PTrailer>>,
      Pre(2, 2, 128) \o <<PDesc(0, 65535, 1, 2, 0), PData(2, <<1, 0>>),
                          PTrailer>>,
      Pre(2, 2, 128) \o <<PDesc(0, 0, 3, 1, 0), PData(2, <<1, 0, 1>>),
                          PTrailer>>,
      Pre(2, 2, 0) \o <<PDesc(0, 0, 1, 1, 0), PData(2, <<1>>), PTrailer>>,
      Pre(2, 2, 128) \o <<PControl(1, 2), PDesc(0, 0, 2, 1, 0),
                          PData(2, <<2, 0>>), PTrailer>> }

\* streams whose image data decodes to more bytes than the image has
Excess ==
    { Pre(2, 2, 128) \o <<PDesc(0, 0, 1, 1, 0), PData(2, <<1, 0, 0, 1>>),
                          PTrailer>>,
      Pre(2, 2, 128) \o <<PDesc(0, 0, 2, 1, 0), PData(2, <<0, 1, 1>>),
                          PTrailer>> }

\* what follows the trailer in a stream that goes on after it
AfterTrailer == {<<0>>, <<59>>, <<71, 73, 70, 56, 57, 97, 1, 0, 1, 0, 0, 0, 0>>}

\* the images given to the block emitter: width, height and w*h bytes
Images ==
    {[w |-> 1, h |-> 1, data |-> d] : d \in {<<0>>, <<1>>, <<3>>}}
    \cup {[w |-> 2, h |-> 1, data |-> <<a, b>>] : a, b \in {0, 1, 3}}
    \cup {[w |-> 2, h |-> 2, data |-> <<a, b, c, 1>>] : a, b, c \in {0, 1}}

\* the bytes the block emitter writes for an image in a one-frame stream
Encoded(img) ==
    <<Part("Header", Header_format(Header_default)),
      Part("LogicalScreenDesc",
           LogicalScreenDesc_format(
               [LogicalScreenDesc_default EXCEPT !.screen_width = img.w,
                                                 !.screen_height = img.h])),
      Part("ImageDesc",
           ImageDesc_format([ImageDesc_default EXCEPT !.width = img.w,
                                                      !.height = img.h])),
      Part("ImageData",
           ImageData_format(
               ImageData_add_data(ImageData_new(img.w * img.h, 2), img.data))),
      Part("Trailer", Trailer_format)>>

MkEnv(kind, parts, bytes, data) ==
    [kind |-> kind, bytes |-> bytes, kinds |-> Kinds(parts),
     ends |-> Ends(parts), data |-> data]

Envs ==
    {MkEnv("full", s, Flatten(s), <<>>) : s \in WellFormed}
    \cup {MkEnv("prefix", s, Take(Flatten(s), n), <<>>) :
            s \in {Stream1(<<1, 0, 0, 1>>), Stream2, Stream3, Stream4},
            n \in 0..60}
    \cup {MkEnv("trail", s, Flatten(s) \o x, <<>>) :
            s \in {Stream2}, x \in AfterTrailer}
    \cup {MkEnv("broken", s, Flatten(s), <<>>) : s \in Broken}
    \cup {MkEnv("excess", s, Flatten(s), <<>>) : s \in Excess}
    \cup {MkEnv("encoded", Encoded(i), Flatten(Encoded(i)), i.data) :
            i \in Images}

\* Decoder::max_image_sz: the default, no limit, or a limit of 3 bytes
DefaultMaxImageSz == 33554432
Caps(e) == IF e.kind \in {"full", "broken"}
           THEN {DefaultMaxImageSz, None, 3}
           ELSE {DefaultMaxImageSz}

(***************************************************************************)
(* The decoder: one of the three iterators is built over the input and     *)
(* next() is called on it again and again.                                 *)
(***************************************************************************)
InitDec ==
    /\ lzw = LzwIdle
    /\ env \in {e \in Envs : e.kind # "prefix"
                             \/ Len(e.bytes) < e.ends[Len(e.ends)]}
    /\ \E cap \in Caps(env) : blocks = Blocks_new(env.bytes, cap)
    /\ frames = Frames_new
    /\ rasters = Rasters_new
    /\ out = OutIdle
    /\ enc = EncIdle

\* the number of input bytes the block iterator has dropped from its buffer
Consumed(b) == Len(env.bytes) - Len(b.reader) - Len(b.buffer)

\* the image descriptor the block iterator read last
LastDesc(b, res) ==
    IF res.tag = "Ok" /\ res.block[1].kind = "ImageDesc"
    THEN res.block
    ELSE IF res.tag = "Err" /\ res.err = "TooLargeImage"
    THEN <<ImageDesc_from_buf(SubSeq(env.bytes, Consumed(b) - 9, Consumed(b)))>>
    ELSE out.desc

\* what `out` becomes when the call op has returned res
RecordOp(op, res, desc, frame) ==
    [calls |-> out.calls + 1,
     last |-> res,
     hist |-> Append(out.hist, res),
     desc |-> desc,
     frame |-> frame,
     ops |-> Append(out.ops, op)]

Record(res, desc, frame) == RecordOp("next", res, desc, frame)

CanCall == out.calls < MaxCalls /\ out.last.tag # "Panic"

BlocksNext ==
    /\ CanCall
    /\ \E n \in {Blocks_next(blocks)} :
       /\ blocks' = n.b
       /\ out' = Record(n.res, LastDesc(n.b, n.res), <<>>)
    /\ UNCHANGED <<lzw, env, frames, rasters, enc>>

FramesNext ==
    /\ CanCall
    /\ \E n \in {Frames_next(blocks, frames)} :
       /\ blocks' = n.b
       /\ frames' = n.f
       /\ out' = Record(n.res, <<>>, <<>>)
    /\ UNCHANGED <<lzw, env, rasters, enc>>

RastersNext ==
    /\ CanCall
    /\ \E n \in {Rasters_next(blocks, frames, rasters)} :
       /\ blocks' = n.b
       /\ frames' = n.f
       /\ rasters' = n.r
       /\ out' = Record(n.res, <<>>, n.frame)
    /\ UNCHANGED <<lzw, env, enc>>

SpecBlocks == InitDec /\ [][BlocksNext]_vars
SpecFrames == InitDec /\ [][FramesNext]_vars
SpecRasters == InitDec /\ [][RastersNext]_vars

\* the frame iterator driven with next() and preamble() in any order
FramesNextOrPreamble ==
    /\ out.calls < MaxPreambleCalls
    /\ FramesNext

FramesPreamble ==
    /\ out.calls < MaxPreambleCalls
    /\ \E p \in {Frames_preamble(blocks, frames)} :
       /\ blocks' = p.b
       /\ frames' = p.f
       /\ out' = RecordOp("preamble", p.res, <<>>, <<>>)
    /\ UNCHANGED <<lzw, env, rasters, enc>>

SpecPreamble == InitDec /\ [][FramesNextOrPreamble \/ FramesPreamble]_vars

(***************************************************************************)
(* The frame encoder: a FrameEnc writing to memory is given a preamble,    *)
(* frames and the trailer in any order; what it wrote after the trailer    *)
(* can be read back with Frames::preamble.                                 *)
(***************************************************************************)
\* the loop counts given to Application::with_loop_count
LoopCounts == {0, 1, 4, 255, 256, 65535}

\* the preamble given to encode_preamble, with loop count n or without one
PreambleIn(n, comments) ==
    [Preamble_default EXCEPT
       !.logical_screen_desc =
           [LogicalScreenDesc_default EXCEPT !.screen_width = 1,
                                             !.screen_height = 1,
                                             !.flags = 128],
       !.global_color_table =
           <<GlobalColorTable_with_colors(<<10, 20, 30, 40, 50, 60>>)>>,
       !.loop_count_ext =
           IF n = None THEN <<>> ELSE <<Application_with_loop_count(n)>>,
       !.comments = comments]

CommentsIn == {<<>>, <<[kind |-> "Comment", comments |-> <<<<65>>>>]>>}

\* the frames given to encode_frame
FramesIn ==
    { Frame_new(<<>>,
                [ImageDesc_default EXCEPT !.width = 1, !.height = 1],
                <<>>,
                ImageData_add_data(ImageData_new(1, 2), <<0>>)),
      Frame_new(<<GraphicControl_default>>,
                [ImageDesc_default EXCEPT !.width = 1, !.height = 1,
                                          !.flags = 128],
                <<LocalColorTable_with_colors(<<11, 21, 31, 41, 51, 61>>)>>,
                ImageData_add_data(ImageData_new(1, 2), <<1>>)) }

InitFrameEnc ==
    /\ lzw = LzwIdle
    /\ env = EnvIdle
    /\ blocks = BlocksIdle
    /\ frames = FramesIdle
    /\ rasters = RastersIdle
    /\ out = OutIdle
    /\ \E n \in LoopCounts \cup {None} : \E c \in CommentsIn :
          enc = [EncIdle EXCEPT !.loop = n, !.preamble = PreambleIn(n, c)]

CanEncode == Len(enc.log) < MaxEncCalls /\ out.calls = 0

Logged(op, r) ==
    [enc EXCEPT !.e = r.e, !.log = Append(@, [op |-> op, err |-> r.err])]

EncodePreamble ==
    /\ CanEncode
    /\ \E r \in {FrameEnc_encode_preamble(enc.e, enc.preamble)} :
          enc' = Logged("preamble", r)
    /\ UNCHANGED <<lzw, env, blocks, frames, rasters, out>>

EncodeFrame ==
    /\ CanEncode
    /\ \E frame \in FramesIn :
       \E r \in {FrameEnc_encode_frame(enc.e, frame)} :
          enc' = Logged("frame", r)
    /\ UNCHANGED <<lzw, env, blocks, frames, rasters, out>>

EncodeTrailer ==
    /\ CanEncode
    /\ \E r \in {FrameEnc_encode_trailer(enc.e)} :
          enc' = Logged("trailer", r)
    /\ UNCHANGED <<lzw, env, blocks, frames, rasters, out>>

\* a decoder is built over the bytes written and Frames::preamble is called
ReadBack ==
    /\ enc.e.has_trailer
    /\ out.calls = 0
    /\ \E p \in {Frames_preamble(Blocks_new(enc.e.writer, DefaultMaxImageSz),
                                  Frames_new)} :
       /\ blocks' = p.b
       /\ frames' = p.f
       /\ out' = RecordOp("preamble", p.res, <<>>, <<>>)
    /\ UNCHANGED <<lzw, env, rasters, enc>>

NextFrameEnc == EncodePreamble \/ EncodeFrame \/ EncodeTrailer \/ ReadBack

SpecFrameEnc == InitFrameEnc /\ [][NextFrameEnc]_vars

(***************************************************************************)
(* The step encoder: a StepEnc writing to memory is given steps with       *)
(* indexed rasters and is dropped.                                         *)
(***************************************************************************)
Step_with_indexed(raster, palette) ==
    [raster |-> raster, palette |-> palette, graphic_control_ext |-> <<>>]

Raster2x2(pixels) == [width |-> 2, height |-> 2, pixels |-> pixels]

Palette2 == <<<<0, 255, 0>>, <<0, 255, 255>>>>
Palette3 == <<<<255, 0, 0>>, <<0, 255, 0>>, <<0, 0, 255>>>>
Palette5 == <<<<255, 0, 0>>, <<0, 255, 0>>, <<0, 0, 255>>, <<255, 255, 0>>,
              <<255, 0, 255>>>>

\* the steps given to encode_step
StepsIn ==
    { Step_with_indexed(Raster2x2(<<1, 0, 0, 1>>), Palette2),
      [Step_with_indexed(Raster2x2(<<0, 2, 1, 0>>), Palette3)
         EXCEPT !.graphic_control_ext =
                    <<[GraphicControl_default EXCEPT !.delay_time_cs = 300]>>],
      Step_with_indexed([width |-> 1, height |-> 1, pixels |-> <<1>>],
                        Palette2),
      Step_with_indexed([width |-> 3, height |-> 3,
                         pixels |-> <<1, 0, 0, 0, 2, 0, 4, 0, 3>>],
                        Palette5) }

InitStepEnc ==
    /\ lzw = LzwIdle
    /\ env = EnvIdle
    /\ blocks = BlocksIdle
    /\ frames = FramesIdle
    /\ rasters = RastersIdle
    /\ out = OutIdle
    /\ \E n \in {None, 0, 3} :
          enc = [EncIdle EXCEPT
                   !.loop = n,
                   !.e = IF n = None THEN StepEnc_new(FrameEnc_new(<<>>))
                         ELSE StepEnc_with_loop_count(
                                  StepEnc_new(FrameEnc_new(<<>>)), n)]

EncodeStep ==
    /\ Len(enc.log) < MaxEncCalls
    /\ ~enc.dropped
    /\ \E step \in StepsIn :
       \E r \in {StepEnc_encode_step(enc.e, step)} :
          enc' = [enc EXCEPT !.e = r.s,
                             !.log = Append(@, [op |-> "step", err |-> r.err,
                                                step |-> step])]
    /\ UNCHANGED <<lzw, env, blocks, frames, rasters, out>>

DropEnc ==
    /\ ~enc.dropped
    /\ enc' = [enc EXCEPT !.e = StepEnc_drop(@), !.dropped = TRUE]
    /\ UNCHANGED <<lzw, env, blocks, frames, rasters, out>>

NextStepEnc == EncodeStep \/ DropEnc

SpecStepEnc == InitStepEnc /\ [][NextStepEnc]_vars

\* a step encoder built with a global palette, then given steps
InitGlobalTable ==
    /\ lzw = LzwIdle
    /\ env = EnvIdle
    /\ blocks = BlocksIdle
    /\ frames = FramesIdle
    /\ rasters = RastersIdle
    /\ out = OutIdle
    /\ \E palette \in {Palette2, Palette3, Palette5} :
          enc = [EncIdle EXCEPT
                   !.e = StepEnc_with_global_color_table(
                             StepEnc_new(FrameEnc_new(<<>>)), palette)]

SpecGlobalTable == InitGlobalTable /\ [][NextStepEnc]_vars

(***************************************************************************)
(* Color tables: a configuration is made for an entry count, or a step     *)
(* encoder is given one-pixel steps with palettes of any length up to 256. *)
(***************************************************************************)
\* a palette of n colors, none of them black
PaletteOf(n) == [i \in 1..n |-> <<i % 256, (2 * i) % 256, 255 - (i % 256)>>]

PixelStep(n) ==
    Step_with_indexed([width |-> 1, height |-> 1, pixels |-> <<0>>],
                      PaletteOf(n))

\* the palette lengths of a first step that a second step follows
FirstLens == {2, MaxTableLen}

InitColorTable ==
    /\ lzw = LzwIdle
    /\ env = EnvIdle
    /\ blocks = BlocksIdle
    /\ frames = FramesIdle
    /\ rasters = RastersIdle
    /\ out = OutIdle
    /\ enc = [EncIdle EXCEPT !.e = StepEnc_new(FrameEnc_new(<<>>))]

NewConfig ==
    /\ enc.log = <<>>
    /\ \E n \in 0..U16_MAX :
       \E cfg \in {ColorTableConfig_new("Present", "NotSorted", n)} :
          enc' = [enc EXCEPT
                    !.log = <<[op |-> "new", n |-> n, cfg |-> cfg,
                               bits |-> ColorTableConfig_len_bits(cfg)]>>]
    /\ UNCHANGED <<lzw, env, blocks, frames, rasters, out>>

EncodePalette ==
    /\ Len(enc.log) < 2
    /\ \A i \in 1..Len(enc.log) :
          enc.log[i].op = "step" /\ enc.log[i].n \in FirstLens
    /\ \E n \in 0..MaxTableLen :
       \E r \in {StepEnc_encode_step(enc.e, PixelStep(n))} :
          enc' = [enc EXCEPT !.e = r.s,
                             !.log = Append(@, [op |-> "step", err |-> r.err,
                                                n |-> n])]
    /\ UNCHANGED <<lzw, env, blocks, frames, rasters, out>>

NextColorTable == NewConfig \/ EncodePalette

SpecColorTable == InitColorTable /\ [][NextColorTable]_vars

(***************************************************************************)
(* The frame assembler: Frames::handle_block is given the blocks of        *)
(* env.data one after another, whatever their order.                       *)
(***************************************************************************)
BlocksIn ==
    { [Comment_default EXCEPT !.comments = <<<<65>>>>],
      [GraphicControl_default EXCEPT !.flags = 9,
                                     !.transparent_color_idx = 3],
      [ImageDesc_default EXCEPT !.left = 1, !.width = 2, !.height = 1,
                                !.flags = 128],
      LocalColorTable_with_colors(<<11, 21, 31, 41, 51, 61>>),
      ImageData_add_data(ImageData_new(1, 2), <<1>>),
      ImageData_add_data(ImageData_new(2, 2), <<0, 1>>) }

RECURSIVE SeqsOfLen(_, _)
SeqsOfLen(S, n) ==
    IF n = 0 THEN {<<>>}
    ELSE {Append(q, x) : q \in SeqsOfLen(S, n - 1), x \in S}

InitAssembler ==
    /\ lzw = LzwIdle
    /\ env \in {[EnvIdle EXCEPT !.kind = "blocks", !.data = q] :
                   q \in SeqsOfLen(BlocksIn, MaxBlocks)}
    /\ blocks = BlocksIdle
    /\ frames = Frames_new
    /\ rasters = RastersIdle
    /\ out = OutIdle
    /\ enc = EncIdle

HandleBlock ==
    /\ out.calls < Len(env.data)
    /\ \E r \in {Frames_handle_block(frames, env.data[out.calls + 1])} :
       /\ frames' = r.f
       /\ out' = RecordOp("handle_block", r.res, <<>>, <<>>)
    /\ UNCHANGED <<lzw, env, blocks, rasters, enc>>

SpecAssembler == InitAssembler /\ [][HandleBlock]_vars

(***************************************************************************)
(* The decompressor, one code at a time: the loop of                       *)
(* Decompressor::decompress hands every code that unpack returns to        *)
(* decompress_code and goes on until unpack returns None or a code fails.  *)
(* Every code of the current width can arrive.                             *)
(***************************************************************************)
InitCodes ==
    /\ lzw = [pc |-> "codes", m |-> 2, d |-> Decompressor_new(2),
              codes |-> <<>>, output |-> <<>>, err |-> ""]
    /\ env = EnvIdle
    /\ blocks = BlocksIdle
    /\ frames = FramesIdle
    /\ rasters = RastersIdle
    /\ out = OutIdle
    /\ enc = EncIdle

DecompressCode ==
    /\ lzw.pc = "codes"
    /\ lzw.err = ""
    /\ Len(lzw.codes) < MaxCodes
    /\ \E code \in 0..Bits_mask(lzw.d.code_bits) :
       \E r \in {Decompressor_decompress_code(lzw.d, code, lzw.output)} :
          lzw' = [lzw EXCEPT !.d = r.d, !.codes = Append(@, code),
                             !.output = r.buffer, !.err = r.err]
    /\ UNCHANGED <<env, blocks, frames, rasters, out, enc>>

SpecCodes == InitCodes /\ [][DecompressCode]_vars

(***************************************************************************)
(* The decompressor, one sub-block at a time: each call of                 *)
(* Decompressor::decompress is given ChunkLen bytes, all equal to the byte *)
(* chosen at the start.  With a minimum code width of 11 the codes are 12  *)
(* bits wide and the bytes 0..3 unpack to literals only: no clear code, no *)
(* end code.                                                               *)
(***************************************************************************)
InitChunks ==
    /\ \E byte \in 0..3 :
          lzw = [pc |-> "chunks", m |-> 11, d |-> Decompressor_new(11),
                 byte |-> byte, chunks |-> 0, output |-> <<>>, err |-> ""]
    /\ env = EnvIdle
    /\ blocks = BlocksIdle
    /\ frames = FramesIdle
    /\ rasters = RastersIdle
    /\ out = OutIdle
    /\ enc = EncIdle

DecompressChunk ==
    /\ lzw.pc = "chunks"
    /\ lzw.err = ""
    /\ lzw.chunks < MaxChunks
    /\ \E r \in {Decompressor_decompress(lzw.d,
                                          [i \in 1..ChunkLen |-> lzw.byte],
                                          lzw.output)} :
          lzw' = [lzw EXCEPT !.d = r.d, !.chunks = @ + 1,
                             !.output = r.buffer, !.err = r.err]
    /\ UNCHANGED <<env, blocks, frames, rasters, out, enc>>

SpecChunks == InitChunks /\ [][DecompressChunk]_vars

(***************************************************************************)
(* A graphic control block with any flags, on which setters are called.    *)
(* env holds the block, the block before the last setter and the setter.   *)
(***************************************************************************)
InitControl ==
    /\ lzw = LzwIdle
    /\ \E flags \in 0..255 : \E delay \in {0, 300} : \E idx \in {0, 5} :
          env = [kind |-> "control",
                 gc |-> [GraphicControl_default EXCEPT
                           !.flags = flags, !.delay_time_cs = delay,
                           !.transparent_color_idx = idx],
                 before |-> GraphicControl_default,
                 op |-> <<>>]
    /\ blocks = BlocksIdle
    /\ frames = FramesIdle
    /\ rasters = RastersIdle
    /\ out = OutIdle
    /\ enc = EncIdle

SetDisposalMethod ==
    /\ env.kind = "control"
    /\ \E d \in {"NoAction", "Keep", "Background", "Previous"} :
          env' = [env EXCEPT
                    !.gc = GraphicControl_set_disposal_method(@, d),
                    !.before = env.gc,
                    !.op = <<"disposal_method", d>>]
    /\ UNCHANGED <<lzw, blocks, frames, rasters, out, enc>>

SetUserInput ==
    /\ env.kind = "control"
    /\ \E u \in BOOLEAN :
          env' = [env EXCEPT
                    !.gc = GraphicControl_set_user_input(@, u),
                    !.before = env.gc,
                    !.op = <<"user_input", u>>]
    /\ UNCHANGED <<lzw, blocks, frames, rasters, out, enc>>

SetTransparentColor ==
    /\ env.kind = "control"
    /\ \E t \in {None, 0, 7} :
          env' = [env EXCEPT
                    !.gc = GraphicControl_set_transparent_color(@, t),
                    !.before = env.gc,
                    !.op = <<"transparent_color", t>>]
    /\ UNCHANGED <<lzw, blocks, frames, rasters, out, enc>>

NextControl == SetDisposalMethod \/ SetUserInput \/ SetTransparentColor

SpecControl == InitControl /\ [][NextControl]_vars

(***************************************************************************)
(* A compressed stream handed to Decompressor::decompress in pieces, as    *)
(* the sub-blocks of an image would be: any split of any stream of up to   *)
(* MaxLen bytes, empty pieces included.                                    *)
(***************************************************************************)
StreamBytes == {0, 68, 136, 255}

InitSplit ==
    /\ \E m \in {2, 3} : \E stream \in SeqsUpTo(StreamBytes, MaxLen) :
          lzw = [pc |-> "split", m |-> m, stream |-> stream, consumed |-> 0,
                 cuts |-> 0, empty |-> FALSE, d |-> Decompressor_new(m),
                 output |-> <<>>, err |-> ""]
    /\ env = EnvIdle
    /\ blocks = BlocksIdle
    /\ frames = FramesIdle
    /\ rasters = RastersIdle
    /\ out = OutIdle
    /\ enc = EncIdle

\* one call of decompress on the next n bytes of the stream
DecompressPiece ==
    /\ lzw.pc = "split"
    /\ lzw.err = ""
    /\ \E n \in 0..(Len(lzw.stream) - lzw.consumed) :
       \E r \in {Decompressor_decompress(
                    lzw.d, SubSeq(lzw.stream, lzw.consumed + 1,
                                  lzw.consumed + n),
                    lzw.output)} :
          lzw' = [lzw EXCEPT !.d = r.d, !.output = r.buffer, !.err = r.err,
                             !.consumed = @ + n,
                             !.cuts = IF n = 0 THEN @ ELSE @ + 1,
                             !.empty = @ \/ n = 0]
    /\ UNCHANGED <<env, blocks, frames, rasters, out, enc>>

SpecSplit == InitSplit /\ [][DecompressPiece]_vars

(***************************************************************************)
(* The compressor, one byte at a time: Compressor::compress packs the      *)
(* clear code, runs its for loop once for every input byte, then packs the *)
(* pending prefix and the end code.  The input is either any MaxLen bytes  *)
(* below 2^m or, for m = 8, a long input in which every pair of            *)
(* neighbouring bytes is new, so that every byte adds a dictionary entry   *)
(* and the dictionary fills up; its last bytes repeat bytes met a little   *)
(* earlier, so that the last entry before the dictionary is full is added  *)
(* after a prefix code that is one of the newest entries.                  *)
(***************************************************************************)
\* the i-th byte (from 1) of the long input: passes of 256 bytes, the bytes
\* of pass p stepping by 2p + 1; from the byte that would fill the
\* dictionary on, the bytes ten places earlier
SpreadByte(i) ==
    LET pass(j) == (((j - 1) % 256) * (2 * ((j - 1) \div 256) + 1)) % 256
    IN  IF i >= Bits_entries(Bits_MAX) - 257 THEN pass(i - 10) ELSE pass(i)

InitCompress ==
    /\ \E feed \in {<<"any", m>> : m \in 2..8} \cup {<<"spread", 8>>} :
          lzw = [pc |-> "start", m |-> feed[2], feed |-> feed[1], fed |-> 0,
                 s |-> [c |-> Compressor_new(feed[2]), buffer |-> <<>>,
                        code |-> None]]
    /\ env = EnvIdle
    /\ blocks = BlocksIdle
    /\ frames = FramesIdle
    /\ rasters = RastersIdle
    /\ out = OutIdle
    /\ enc = EncIdle

\* self.pack(self.clear_code(), buffer); let mut code = None
CompressStart ==
    /\ lzw.pc = "start"
    /\ \E p \in {Compressor_pack(lzw.s.c, clear_code(lzw.s.c), lzw.s.buffer)} :
          lzw' = [lzw EXCEPT !.pc = "bytes",
                             !.s = [c |-> p.c, buffer |-> p.buffer,
                                    code |-> None]]
    /\ UNCHANGED <<env, blocks, frames, rasters, out, enc>>

\* one iteration of for data in bytes
CompressByte ==
    /\ lzw.pc = "bytes"
    /\ lzw.fed < (IF lzw.feed = "any" THEN MaxLen ELSE SpreadLen)
    /\ \E data \in (IF lzw.feed = "any" THEN LzwBytes(lzw.m)
                    ELSE {SpreadByte(lzw.fed + 1)}) :
          lzw' = [lzw EXCEPT !.fed = @ + 1,
                             !.s = compress_byte(lzw.s, data)]
    /\ UNCHANGED <<env, blocks, frames, rasters, out, enc>>

\* n iterations of the loop on the bytes of the long input after the first
\* `fed`; between iterations the bit buffer holds less than a byte
RECURSIVE compress_run(_, _, _)
compress_run(s, fed, n) ==
    IF n = 0 \/ s.c.n_bits >= 8 THEN s
    ELSE compress_run(compress_byte(s, SpreadByte(fed + 1)), fed + 1, n - 1)

\* RunLen iterations of the loop at once, on the long input taken in
\* stretches of RunLen bytes
CompressRun ==
    /\ lzw.pc = "bytes"
    /\ lzw.feed = "spread"
    /\ lzw.fed % RunLen = 0
    /\ lzw.fed + RunLen <= SpreadLen
    /\ lzw' = [lzw EXCEPT !.fed = @ + RunLen,
                          !.s = compress_run(lzw.s, lzw.fed, RunLen)]
    /\ UNCHANGED <<env, blocks, frames, rasters, out, enc>>

\* the end of the input: the pending prefix and the end code are packed
CompressFinish ==
    /\ lzw.pc = "bytes"
    /\ lzw.feed = "any" \/ lzw.fed = SpreadLen
    /\ \E p1 \in {IF lzw.s.code # None
                  THEN Compressor_pack(lzw.s.c, lzw.s.code, lzw.s.buffer)
                  ELSE [c |-> lzw.s.c, buffer |-> lzw.s.buffer]} :
       \E p2 \in {Compressor_pack(p1.c, end_code(p1.c), p1.buffer)} :
          lzw' = [lzw EXCEPT !.pc = "done",
                             !.s = [c |-> p2.c, buffer |-> p2.buffer,
                                    code |-> None]]
    /\ UNCHANGED <<env, blocks, frames, rasters, out, enc>>

NextCompress ==
    CompressStart \/ CompressByte \/ CompressRun \/ CompressFinish

SpecCompress == InitCompress /\ [][NextCompress]_vars

(***************************************************************************)
(* The compressor and the decompressor side by side: a behaviour is one of *)
(* the compressor, byte by byte, or one of the decompressor, code by code. *)
(***************************************************************************)
SpecWidth ==
    (InitCompress \/ InitCodes) /\ [][NextCompress \/ DecompressCode]_vars

(***************************************************************************)
(* Blocks with sub-blocks written by BlockEnc::encode.  A behaviour either *)
(* encodes one block in one step, or takes ImageData::format apart: the    *)
(* compressor runs byte by byte and the buffer it filled is then written   *)
(* in chunks, which lets the compressed stream span many sub-blocks.       *)
(***************************************************************************)
BlocksOut ==
    { PlainText_default,
      [PlainText_default EXCEPT !.sub_blocks = <<<<1, 2>>>>],
      Comment_default,
      [Comment_default EXCEPT !.comments = <<<<65>>, <<66, 67>>>>],
      Application_default,
      Application_with_loop_count(4),
      [kind |-> "Unknown", sub_blocks |-> <<>>],
      Unknown_new(7),
      [kind |-> "Unknown", sub_blocks |-> <<<<7>>, <<8, 9>>>>] }
    \cup { ImageData_add_data(ImageData_new(Len(B), 2), B) :
              B \in SeqsUpTo({0, 1, 3}, MaxLen) }

InitEmit ==
    /\ lzw = LzwIdle
    /\ env \in {[EnvIdle EXCEPT !.kind = "emit", !.data = <<b>>] :
                   b \in BlocksOut}
    /\ blocks = BlocksIdle
    /\ frames = FramesIdle
    /\ rasters = RastersIdle
    /\ out = OutIdle
    /\ enc = EncIdle

EncodeBlock ==
    /\ env.kind = "emit"
    /\ enc.log = <<>>
    /\ enc' = [enc EXCEPT !.e.writer = BlockEnc_encode(@, env.data[1]),
                          !.log = <<[op |-> "encode", err |-> ""]>>]
    /\ UNCHANGED <<lzw, env, blocks, frames, rasters, out>>

\* ImageData::format after compress returned: min_code_bits, the buffer in
\* chunks of 255 bytes, the final sub-block size
WriteSubBlocks ==
    /\ lzw.pc = "done"
    /\ lzw' = [lzw EXCEPT !.pc = "written"]
    /\ enc' = [enc EXCEPT !.e.writer = @ \o <<lzw.m>>
                                         \o write_chunks(lzw.s.buffer)
                                         \o <<0>>]
    /\ UNCHANGED <<env, blocks, frames, rasters, out>>

SpecEmit ==
    (InitCompress \/ InitEmit)
    /\ [][NextCompress \/ WriteSubBlocks \/ EncodeBlock]_vars

(***************************************************************************)
(* The properties                                                          *)
(***************************************************************************)
IsOk(r, k) == r.tag = "Ok" /\ r.block[1].kind = k

Hist == 1..Len(out.hist)

\* C2: the bytes the block emitter writes for an image descriptor and the
\* image data of a w*h image, read back by the block iterator, give an
\* ImageData block holding the same w*h bytes (it is the fourth block of the
\* stream: header, screen descriptor, image descriptor, image data).
C2_ImageDataRoundTrip ==
    (env.kind = "encoded" /\ out.calls = 4)
        => /\ IsOk(out.last, "ImageData")
           /\ ImageData_data(out.last.block[1]) = env.data

\* C3: once the block iterator has yielded a Trailer, every later call of
\* next() returns None.
C3_NoneAfterTrailer ==
    \A i \in Hist : \A j \in Hist :
        (i < j /\ IsOk(out.hist[i], "Trailer")) => out.hist[j].tag = "None"

\* C4: once next() of the block iterator has returned an error, every later
\* call returns None.
C4_NoneAfterError ==
    \A i \in Hist : \A j \in Hist :
        (i < j /\ out.hist[i].tag = "Err") => out.hist[j].tag = "None"

\* C5: once next() of the frame iterator has returned an error, every later
\* call returns None.
C5_FramesNoneAfterError ==
    \A i \in Hist :
        (out.hist[i].tag = "Err" /\ out.hist[i].block = <<>>)
            => \A j \in (i + 1)..Len(out.hist) : out.hist[j] = NoneRes

\* C6: driving the raster iterator never panics: every item is a raster or
\* an error.
C6_NoPanic == out.last.tag # "Panic"

\* C7: with max_image_sz = Some(c) no image descriptor with width*height > c
\* is yielded and no ImageData block of more than c bytes is ever yielded;
\* with max_image_sz = None no image is rejected for its size.
C7_SizeCap ==
    \A i \in Hist :
        LET r == out.hist[i] IN
        IF blocks.max_image_sz = None
        THEN ~(r.tag = "Err" /\ r.err = "TooLargeImage")
        ELSE /\ IsOk(r, "ImageDesc")
                => ImageDesc_image_sz(r.block[1]) <= blocks.max_image_sz
             /\ IsOk(r, "ImageData")
                => Len(ImageData_data(r.block[1])) <= blocks.max_image_sz

ActiveTable(frame) ==
    IF frame.local_color_table # <<>> THEN <<frame.local_color_table[1].colors>>
    ELSE IF rasters.global_color_table # <<>>
    THEN <<rasters.global_color_table[1].colors>>
    ELSE <<>>

IndicesValid(frame) ==
    ActiveTable(frame) # <<>>
        => \A k \in 1..Len(ImageData_data(frame.image_data)) :
              3 * ImageData_data(frame.image_data)[k] + 2
                < Len(ActiveTable(frame)[1])

\* C9: in every frame the frame iterator yields without error, every image
\* data byte is a valid index into the frame's active colour table.
C9_FrameIndicesValid == out.frame # <<>> => IndicesValid(out.frame[1])

\* C9 as amended: in every frame the compositor has painted without error,
\* every image data byte is a valid index into the frame's active colour
\* table.
C9_PaintedIndicesValid ==
    (out.frame # <<>> /\ out.last.tag = "Ok") => IndicesValid(out.frame[1])

\* a frame with image data was painted with a table of two colours
C9_Witness ==
    /\ out.frame # <<>>
    /\ out.last.tag = "Ok"
    /\ ActiveTable(out.frame[1]) # <<>>
    /\ Len(ImageData_data(out.frame[1].image_data)) > 1

\* the number of blocks that are complete in the input
RECURSIVE Complete(_, _)
Complete(ends, len) ==
    IF ends = <<>> \/ Head(ends) > len THEN 0
    ELSE 1 + Complete(Tail(ends), len)

\* C10: when the input stops before the trailer of a well-formed stream, the
\* block iterator yields the blocks that are complete in the input, in
\* order, and then UnexpectedEndOfFile; it never returns None before it has
\* yielded a Trailer or an error.
C10_EndOfFile ==
    /\ env.kind = "prefix"
        => LET k == Complete(env.ends, Len(env.bytes)) IN
           \A i \in Hist :
             /\ i <= k => IsOk(out.hist[i], env.kinds[i])
             /\ i = k + 1 => out.hist[i] = Err("UnexpectedEndOfFile")
    /\ \A i \in Hist :
          out.hist[i].tag = "None"
            => \E j \in 1..(i - 1) :
                  \/ out.hist[j].tag = "Err"
                  \/ IsOk(out.hist[j], "Trailer")

\* an input cut inside its image data gave five blocks, then the error
C10_Witness ==
    /\ env.kind = "prefix"
    /\ out.calls = 6
    /\ IsOk(out.hist[5], "ImageDesc")
    /\ out.last = Err("UnexpectedEndOfFile")

\* C11: the first block is read from the first 6 bytes of the input: bytes
\* other than "GIF" at 0..2 give MalformedHeader; "GIF" followed by a version
\* that is neither "87a" nor "89a" gives UnsupportedVersion carrying the three
\* version bytes; otherwise a Header block with that version is yielded and
\* the block expected next is the 7-byte logical screen descriptor.
C11_HeaderValidation ==
    (out.calls >= 1 /\ Len(env.bytes) >= 6)
        => IF SubSeq(env.bytes, 1, 3) # <<71, 73, 70>>
           THEN out.hist[1] = Err("MalformedHeader")
           ELSE IF SubSeq(env.bytes, 4, 6) \notin {<<56, 55, 97>>, <<56, 57, 97>>}
           THEN /\ out.hist[1].tag = "Err"
                /\ out.hist[1].err = "UnsupportedVersion"
                /\ out.hist[1].version = SubSeq(env.bytes, 4, 6)
           ELSE /\ out.hist[1]
                     = Ok([kind |-> "Header",
                           version |-> SubSeq(env.bytes, 4, 6)])
                /\ out.calls = 1
                     => blocks.expected_next
                          = <<[bc |-> "LogicalScreenDesc_", sz |-> 7]>>

\* the input "GIF88a" was rejected with its version bytes
C11_Witness ==
    /\ out.calls = 1
    /\ out.last.err = "UnsupportedVersion"
    /\ out.last.version = <<56, 56, 97>>

\* a call of op succeeded among the calls before the i-th
Succeeded(op, i) ==
    \E j \in 1..(i - 1) : enc.log[j].op = op /\ enc.log[j].err = ""

\* C12: on a FrameEnc, encode_preamble after a successful encode_preamble,
\* and encode_frame or encode_trailer before any successful encode_preamble
\* or after a successful encode_trailer, return InvalidBlockSequence; every
\* other call (the order preamble, frame*, trailer) is accepted.
C12_CallOrder ==
    \A i \in 1..Len(enc.log) :
        IF enc.log[i].op = "preamble"
        THEN enc.log[i].err = (IF Succeeded("preamble", i)
                               THEN "InvalidBlockSequence" ELSE "")
        ELSE enc.log[i].err = (IF \/ ~Succeeded("preamble", i)
                                  \/ Succeeded("trailer", i)
                               THEN "InvalidBlockSequence" ELSE "")

\* preamble, frame and trailer were accepted and a late frame was refused
C12_Witness ==
    /\ Len(enc.log) = 4
    /\ enc.log[1] = [op |-> "preamble", err |-> ""]
    /\ enc.log[2] = [op |-> "frame", err |-> ""]
    /\ enc.log[3] = [op |-> "trailer", err |-> ""]
    /\ enc.log[4] = [op |-> "frame", err |-> "InvalidBlockSequence"]

\* the steps encode_step accepted, in call order
RECURSIVE Accepted(_)
Accepted(log) ==
    IF log = <<>> THEN <<>>
    ELSE (IF Head(log).err = "" THEN <<Head(log).step>> ELSE <<>>)
         \o Accepted(Tail(log))

\* the preamble expected for the first step: header, logical screen
\* descriptor of the size of its raster, its palette as the global table,
\* the loop count block if one was configured
ExpectedPreamble(first) ==
    <<71, 73, 70, 56, 57, 97>>
    \o <<Lo(first.raster.width), Hi(first.raster.width),
         Lo(first.raster.height), Hi(first.raster.height),
         LogicalScreenDesc_with_color_table_config(
             LogicalScreenDesc_default,
             make_color_table(first.palette).cfg).flags,
         0, 0>>
    \o make_color_table(first.palette).pal
    \o (IF enc.loop = None THEN <<>>
        ELSE Application_format(Application_with_loop_count(enc.loop)))

\* the frame expected for a step: graphic control if the step has one, image
\* descriptor, the palette as local table if it is not that of the first
\* step, image data
ExpectedFrame(step, first) ==
    (IF step.graphic_control_ext = <<>> THEN <<>>
     ELSE GraphicControl_format(step.graphic_control_ext[1]))
    \o (IF make_color_table(step.palette).pal
            = make_color_table(first.palette).pal
        THEN ImageDesc_format([ImageDesc_default EXCEPT
                                 !.width = step.raster.width,
                                 !.height = step.raster.height])
        ELSE ImageDesc_format(ImageDesc_with_color_table_config(
                                 [ImageDesc_default EXCEPT
                                    !.width = step.raster.width,
                                    !.height = step.raster.height],
                                 make_color_table(step.palette).cfg))
             \o make_color_table(step.palette).pal)
    \o ImageData_format(ImageData_from_raster(step.raster))

RECURSIVE ExpectedFrames(_, _)
ExpectedFrames(steps, first) ==
    IF steps = <<>> THEN <<>>
    ELSE ExpectedFrame(Head(steps), first) \o ExpectedFrames(Tail(steps), first)

ExpectedFile(steps) ==
    IF steps = <<>> THEN <<>>
    ELSE ExpectedPreamble(steps[1]) \o ExpectedFrames(steps, steps[1])
         \o <<59>>

\* C13: when a step encoder is dropped after k >= 1 successful encode_step
\* calls, the bytes written are one preamble (header "GIF89a", logical
\* screen descriptor of the size of the first raster with the global table
\* flag set, the global color table, the loop count block if configured),
\* the k frames in call order and one trailer byte 0x3B, the last byte; with
\* no step encoded, nothing is written.
C13_StepEncBytes ==
    enc.dropped
        => /\ enc.e.frame_enc.writer = ExpectedFile(Accepted(enc.log))
           /\ Accepted(enc.log) # <<>>
                 => /\ BitAnd(enc.e.frame_enc.writer[11], 128) = 128
                    /\ enc.e.frame_enc.writer[Len(enc.e.frame_enc.writer)] = 59

\* the 2x2 raster of the test enc_2x2 and a step with another palette were
\* encoded: the file starts with the bytes of the fixture GIF_2X2 up to its
\* trailer and goes on with the second frame
C13_Witness ==
    /\ enc.dropped
    /\ Len(Accepted(enc.log)) = 2
    /\ Len(enc.e.frame_enc.writer) > 35
    /\ SubSeq(enc.e.frame_enc.writer, 1, 34)
         = <<71, 73, 70, 56, 57, 97, 2, 0, 2, 0, 128, 0, 0, 0, 255, 0, 0,
             255, 255, 44, 0, 0, 0, 0, 2, 0, 2, 0, 0, 2, 2, 12, 16, 0>>
    /\ enc.e.frame_enc.writer[35] = 33

\* the smallest m in 2..8 such that every byte of data is below 2^m
SmallestCodeBits(data) ==
    CHOOSE m \in 2..8 :
        /\ \A i \in 1..Len(data) : data[i] < Pow2(m)
        /\ \A k \in 2..(m - 1) : \E i \in 1..Len(data) : data[i] >= Pow2(k)

\* where the image data of the first frame starts in the file written for
\* a first step: after the preamble, the graphic control block if there is
\* one, and the 10 bytes of the image descriptor
FirstImageDataAt(step) ==
    Len(ExpectedPreamble(step))
    + (IF step.graphic_control_ext = <<>> THEN 0 ELSE 8) + 10 + 1

\* C14: the image data of a frame is written with min_code_bits equal to
\* the smallest m in 2..8 such that every image data byte is below 2^m, so
\* that no index is the clear code 2^m or the end code 2^m + 1 (data whose
\* largest index is 4 is written with m = 3).
C14_MinCodeBits ==
    (Len(enc.log) = 1 /\ enc.log[1].op = "step" /\ enc.log[1].err = "")
        => enc.e.frame_enc.writer[FirstImageDataAt(enc.log[1].step)]
             = SmallestCodeBits(enc.log[1].step.raster.pixels)

\* C15: Application::with_loop_count(n).loop_count() is Some(n); an
\* Application block without sub-blocks has no loop count; and when a
\* preamble carrying with_loop_count(n) was written by the frame encoder
\* with a frame after it, the preamble that Frames::preamble reads back has
\* a loop_count_ext whose loop_count() is Some(n).
C15_LoopCountRoundTrip ==
    /\ Application_loop_count(Application_default) = None
    /\ enc.loop # None
         => /\ enc.preamble.loop_count_ext # <<>>
            /\ Application_loop_count(enc.preamble.loop_count_ext[1])
                 = enc.loop
    /\ (enc.loop # None /\ out.calls = 1
           /\ Succeeded("frame", Len(enc.log) + 1))
         => /\ IsOk(out.last, "Preamble")
            /\ out.last.block[1].loop_count_ext # <<>>
            /\ Application_loop_count(out.last.block[1].loop_count_ext[1])
                 = enc.loop

\* the loop count 256 was written with one frame and read back
C15_Witness ==
    /\ enc.loop = 256
    /\ enc.log = <<[op |-> "preamble", err |-> ""],
                   [op |-> "frame", err |-> ""],
                   [op |-> "trailer", err |-> ""]>>
    /\ IsOk(out.last, "Preamble")
    /\ Application_loop_count(out.last.block[1].loop_count_ext[1]) = 256

\* the bytes "NETSCAPE2.0"
Netscape == <<78, 69, 84, 83, 67, 65, 80, 69, 50, 46, 48>>

\* C16: Application::with_loop_count(n) builds the two sub-blocks
\* "NETSCAPE2.0" and [0x01, n mod 256, n div 256], low byte first; the
\* emitter writes 0x21 0xFF 0x0B "NETSCAPE2.0" 0x03 0x01 lo hi 0x00 (here
\* after the 19 bytes of header, screen descriptor and global table); and
\* loop_count() reads lo + 256 * hi from such a block.
C16_LoopCountLayout ==
    enc.loop # None
        => /\ enc.preamble.loop_count_ext[1].app_data
                = <<Netscape, <<1, enc.loop % 256, enc.loop \div 256>>>>
           /\ (Len(enc.log) >= 1 /\ enc.log[1] = [op |-> "preamble", err |-> ""])
                => SubSeq(enc.e.writer, 20, 38)
                     = <<33, 255, 11>> \o Netscape
                       \o <<3, 1, enc.loop % 256, enc.loop \div 256, 0>>
           /\ Application_loop_count(
                  [kind |-> "Application",
                   app_data |-> <<Netscape,
                                  <<1, enc.loop % 256, enc.loop \div 256>>>>])
                = enc.loop

\* C17: Frames::preamble hands out a preamble at most once: the first call,
\* made before any frame was yielded, returns the preamble or an error
\* (InvalidBlockSequence when the blocks end before a frame starts); every
\* other call, also one made after frames were yielded, returns Ok(None).
C17_PreambleOnce ==
    \A i \in Hist :
        out.ops[i] = "preamble"
            => IF \A j \in 1..(i - 1) : /\ out.ops[j] # "preamble"
                                        /\ ~IsOk(out.hist[j], "Frame")
               THEN IsOk(out.hist[i], "Preamble") \/ out.hist[i].tag = "Err"
               ELSE out.hist[i] = NoneRes

\* the frame covers column col of row row of the screen
InRegion(frame, col, row) ==
    /\ col >= frame.image_desc.left
    /\ col < frame.image_desc.left + frame.image_desc.width
    /\ row >= frame.image_desc.top
    /\ row < frame.image_desc.top + frame.image_desc.height

\* the colour of the entry idx of the table clrs, transparent for the
\* frame's transparent index
EntryColor(frame, clrs, idx) ==
    IF Frame_transparent_color(frame) = idx THEN SRgba8_default
    ELSE <<clrs[3 * idx + 1], clrs[3 * idx + 2], clrs[3 * idx + 3], 255>>

\* the screen with the frame painted into it, the frame's row frow being
\* row DataRow(frow) of its image data
PaintedWith(screen, frame, clrs, DataRow(_)) ==
    [screen EXCEPT !.pixels =
        [i \in 1..Len(screen.pixels) |->
            LET at(col, row) ==
                    IF InRegion(frame, col, row)
                    THEN EntryColor(
                            frame, clrs,
                            ImageData_data(frame.image_data)[
                                DataRow(row - frame.image_desc.top)
                                    * frame.image_desc.width
                                + (col - frame.image_desc.left) + 1])
                    ELSE screen.pixels[i]
            IN  at((i - 1) % screen.width, (i - 1) \div screen.width)]]

SameRow(frow) == frow
PaintedOver(screen, frame, clrs) == PaintedWith(screen, frame, clrs, SameRow)

\* the colours a frame is painted with, given the global colour table
TableOf(frame, global_tbl) ==
    IF frame.local_color_table # <<>> THEN frame.local_color_table[1].colors
    ELSE global_tbl[1].colors

\* the screen before the step that made post: the persistent raster, or
\* the cleared screen when the step has just made it
ScreenBefore(pre, post) ==
    IF pre.raster # <<>> THEN pre.raster[1]
    ELSE Raster_with_clear(post.raster[1].width, post.raster[1].height)

\* a step that painted a frame of the given disposal method
Stepped(o, method) ==
    /\ o.frame # <<>>
    /\ o.last.tag = "Ok"
    /\ Frame_disposal_method(o.frame[1]) = method

\* C18: for a frame whose disposal method is Previous the step returned is
\* a copy of the screen before the frame with the frame painted into it,
\* and the persistent screen raster after the step equals, pixel for pixel,
\* the persistent raster before the step.
C18_DisposalPrevious ==
    [][(out'.calls = out.calls + 1 /\ Stepped(out', "Previous"))
        => /\ out'.last.block[1]
                = PaintedOver(ScreenBefore(rasters, rasters'), out'.frame[1],
                              TableOf(out'.frame[1],
                                      rasters'.global_color_table))
           /\ rasters'.raster = <<ScreenBefore(rasters, rasters')>>]_vars

\* the second frame of the three-frame stream, of disposal Previous, was
\* painted: the step differs from the persistent raster, which still shows
\* the first frame
C18_Witness ==
    /\ env.kinds = Kinds(Stream5)
    /\ out.calls = 2
    /\ Stepped(out, "Previous")
    /\ out.last.block[1] # rasters.raster[1]
    /\ rasters.raster[1] = out.hist[1].block[1]
    /\ rasters.raster[1] # Raster_with_clear(2, 2)

\* the pixels of the screen the frame covers are transparent and the others
\* are those of the screen before
RegionCleared(after, before, frame) ==
    /\ after.width = before.width
    /\ after.height = before.height
    /\ Len(after.pixels) = Len(before.pixels)
    /\ \A i \in 1..Len(after.pixels) :
          after.pixels[i] =
              IF InRegion(frame, (i - 1) % before.width,
                          (i - 1) \div before.width)
              THEN <<0, 0, 0, 0>>
              ELSE before.pixels[i]

\* C19: for a frame whose disposal method is Background the step returned
\* shows the frame painted over the screen content before it; afterwards
\* every pixel of the persistent raster inside the frame region is
\* transparent RGBA(0,0,0,0) and every pixel outside it has the value it
\* had before the frame.
C19_DisposalBackground ==
    [][(out'.calls = out.calls + 1 /\ Stepped(out', "Background"))
        => /\ out'.last.block[1]
                = PaintedOver(ScreenBefore(rasters, rasters'), out'.frame[1],
                              TableOf(out'.frame[1],
                                      rasters'.global_color_table))
           /\ RegionCleared(rasters'.raster[1],
                            ScreenBefore(rasters, rasters'),
                            out'.frame[1])]_vars

\* the third frame of the three-frame stream, of disposal Background, was
\* painted over the lower row: the step shows it, the persistent raster has
\* the lower row transparent and the upper row still as the first frame
\* left it
C19_Witness ==
    /\ env.kinds = Kinds(Stream5)
    /\ out.calls = 3
    /\ Stepped(out, "Background")
    /\ out.last.block[1].pixels
         = <<<<40, 50, 60, 255>>, <<10, 20, 30, 255>>,
             <<40, 50, 60, 255>>, <<40, 50, 60, 255>>>>
    /\ rasters.raster[1].pixels
         = <<<<40, 50, 60, 255>>, <<10, 20, 30, 255>>,
             <<0, 0, 0, 0>>, <<0, 0, 0, 0>>>>

\* rows first, first + step, ... below height
PassRows(height, first, step) ==
    [k \in 1..((height - first + step - 1) \div step) |->
        first + (k - 1) * step]

\* the rows of a frame in the order an interlaced image stores them
InterlacedRows(height) ==
    PassRows(height, 0, 8) \o PassRows(height, 4, 8)
        \o PassRows(height, 2, 4) \o PassRows(height, 1, 2)

\* the row of the image data that holds row frow of an interlaced frame
InterlacedDataRow(frow, height) ==
    CHOOSE k \in 0..(height - 1) : InterlacedRows(height)[k + 1] = frow

\* the screen with the frame painted into it as its interlaced flag says
PaintedAsFlagged(screen, frame, clrs) ==
    IF ImageDesc_interlaced(frame.image_desc)
    THEN PaintedWith(screen, frame, clrs,
                     LAMBDA frow :
                        InterlacedDataRow(frow, frame.image_desc.height))
    ELSE PaintedOver(screen, frame, clrs)

\* C20: when the interlaced bit (bit 6) of the image descriptor is set the
\* compositor writes row k of the frame's image data to the frame row the
\* four-pass schedule gives (rows 0, 8, 16, ...; then 4, 12, ...; then
\* 2, 6, 10, ...; then 1, 3, 5, ...); when the bit is clear row k of the
\* data goes to row k.
C20_Interlaced ==
    [][(out'.calls = out.calls + 1 /\ out'.frame # <<>>
            /\ out'.last.tag = "Ok")
        => out'.last.block[1]
             = PaintedAsFlagged(ScreenBefore(rasters, rasters'),
                                out'.frame[1],
                                TableOf(out'.frame[1],
                                        rasters'.global_color_table))]_vars

\* the smallest power of two that is at least max(n, 2), capped at 256
TableLenFor(n) ==
    IF n > 256 THEN 256
    ELSE CHOOSE L \in {Pow2(k) : k \in 1..8} :
            /\ L >= n
            /\ \A M \in {Pow2(k) : k \in 1..8} : M >= n => L <= M

\* the size code N of a table of L entries: 2^(N+1) = L
SizeCodeFor(L) == CHOOSE N \in 0..7 : Pow2(N + 1) = L

\* the palette's RGB triples followed by zero bytes up to 3*L bytes
Triples(palette) ==
    [k \in 1..(3 * Len(palette)) |->
        IF k % 3 = 1 THEN palette[(k + 2) \div 3][1]
        ELSE IF k % 3 = 2 THEN palette[(k + 1) \div 3][2]
        ELSE palette[k \div 3][3]]

TableBytesFor(n) ==
    Triples(PaletteOf(n)) \o [i \in 1..(3 * TableLenFor(n) - 3 * n) |-> 0]

\* the length of the image data block of a one-pixel step
PixelDataLen == Len(ImageData_format(ImageData_from_raster(PixelStep(0).raster)))

\* byte at of w holds descriptor flags with the table flag and the size
\* code for n; gap bytes later the table for n follows, then the byte next
TableAt(w, at, gap, n, next) ==
    /\ BitAnd(w[at], 128) = 128
    /\ BitAnd(w[at], 7) = SizeCodeFor(TableLenFor(n))
    /\ Len(w) > at + gap + 3 * TableLenFor(n)
    /\ SubSeq(w, at + gap + 1, at + gap + 3 * TableLenFor(n))
         = TableBytesFor(n)
    /\ w[at + gap + 3 * TableLenFor(n) + 1] = next

\* where the second frame starts in the bytes written for two steps
SecondFrameAt(n1) == 13 + 3 * TableLenFor(n1) + 10 + PixelDataLen

\* C21: for every entry count n in 0..65535 ColorTableConfig::new gives a
\* table length L that is the smallest power of two >= max(n, 2), capped at
\* 256, and a size code N with 2^(N+1) = L; for a palette of n <= 256
\* entries the step encoder writes a color table of exactly 3*L bytes, the
\* palette's RGB triples followed by zeros, with N as the size code of the
\* descriptor flags before it (the logical screen descriptor for the global
\* table, the image descriptor for a local table).
C21_ColorTableSizing ==
    /\ \A i \in 1..Len(enc.log) :
          enc.log[i].op = "new"
              => /\ enc.log[i].cfg.table_len = TableLenFor(enc.log[i].n)
                 /\ Pow2(enc.log[i].bits + 1) = enc.log[i].cfg.table_len
                 /\ enc.log[i].bits \in 0..7
    /\ (Len(enc.log) >= 1 /\ enc.log[1].op = "step")
          => /\ enc.log[1].err = ""
             /\ TableAt(enc.e.frame_enc.writer, 11, 2, enc.log[1].n, 44)
    /\ (Len(enc.log) = 2 /\ enc.log[2].n # enc.log[1].n)
          => /\ enc.log[2].err = ""
             /\ enc.e.frame_enc.writer[SecondFrameAt(enc.log[1].n) + 1] = 44
             /\ TableAt(enc.e.frame_enc.writer,
                        SecondFrameAt(enc.log[1].n) + 10, 0, enc.log[2].n, 2)
             /\ Len(enc.e.frame_enc.writer)
                  = SecondFrameAt(enc.log[1].n) + 10
                    + 3 * TableLenFor(enc.log[2].n) + PixelDataLen

\* palettes of 256 and of 5 colors were written as the global and as a
\* local table, of 768 and of 24 bytes
C21_Witness ==
    /\ Len(enc.log) = 2
    /\ enc.log[1] = [op |-> "step", err |-> "", n |-> 256]
    /\ enc.log[2] = [op |-> "step", err |-> "", n |-> 5]
    /\ Len(enc.e.frame_enc.writer) = 13 + 768 + 10 + PixelDataLen
                                     + 10 + 24 + PixelDataLen

\* the raster of step a has the width and the height of that of step b
SameSize(a, b) ==
    /\ a.raster.width = b.raster.width
    /\ a.raster.height = b.raster.height

HasTable(d) == BitAnd(d.flags, 128) # 0
TableBytes(d) == 3 * Pow2(BitAnd(d.flags, 7) + 1)

ExtensionKinds ==
    {"PlainText", "GraphicControl", "Comment", "Application", "Unknown"}

Failed(res) == res.tag \in {"Err", "Panic"}

\* the block res follows the block prev as the context prescribes, input
\* being the bytes not yet taken when the call that returned res was made
FollowsInContext(prev, res, input) ==
    CASE prev.kind = "Header" ->
            IsOk(res, "LogicalScreenDesc") \/ Failed(res)
      [] prev.kind = "Trailer" -> res.tag # "Ok"
      [] prev.kind = "LogicalScreenDesc" /\ HasTable(prev) ->
            \/ /\ IsOk(res, "GlobalColorTable")
               /\ Len(res.block[1].colors) = TableBytes(prev)
            \/ res = Err("UnexpectedEndOfFile")
      [] prev.kind = "ImageDesc" /\ HasTable(prev) ->
            \/ /\ IsOk(res, "LocalColorTable")
               /\ Len(res.block[1].colors) = TableBytes(prev)
            \/ res = Err("UnexpectedEndOfFile")
      [] prev.kind \in {"ImageDesc", "LocalColorTable"}
            /\ ~(prev.kind = "ImageDesc" /\ HasTable(prev)) ->
            \/ IsOk(res, "ImageData")
            \/ Failed(res) /\ res.err # "InvalidBlockCode"
      [] OTHER ->
            IF input = <<>> THEN res = Err("UnexpectedEndOfFile")
            ELSE CASE input[1] = 44 ->
                        \/ IsOk(res, "ImageDesc")
                        \/ Failed(res) /\ res.err # "InvalidBlockCode"
                   [] input[1] = 33 ->
                        \/ res.tag = "Ok"
                              /\ res.block[1].kind \in ExtensionKinds
                        \/ Failed(res) /\ res.err # "InvalidBlockCode"
                   [] input[1] = 59 -> IsOk(res, "Trailer")
                   [] OTHER -> res = Err("InvalidBlockCode")

\* C23: the parser yields a GlobalColorTable of exactly 3*2^(N+1) bytes
\* right after a LogicalScreenDesc if and only if bit 7 of its flags is
\* set, and a LocalColorTable of 3*2^(N+1) bytes right after an ImageDesc
\* if and only if bit 7 of its flags is set; the block after an ImageDesc
\* and its optional local table is ImageData; in the other positions the
\* next byte is read as an introducer, 0x2C, 0x21 and 0x3B selecting image
\* descriptor, extension and trailer and any other byte giving
\* InvalidBlockCode.  (A block that cannot be read to its end is an error.)
C23_BlockOrder ==
    [][(out'.calls = out.calls + 1 /\ out.last.tag = "Ok")
        => FollowsInContext(out.last.block[1], out'.last,
                            blocks.buffer \o blocks.reader)]_vars

\* a local color table of 12 bytes was yielded after an image descriptor
\* with flags 0x81, and image data after it
C23_Witness ==
    /\ Len(out.hist) >= 3
    /\ IsOk(out.hist[Len(out.hist) - 2], "ImageDesc")
    /\ out.hist[Len(out.hist) - 2].block[1].flags = 129
    /\ IsOk(out.hist[Len(out.hist) - 1], "LocalColorTable")
    /\ Len(out.hist[Len(out.hist) - 1].block[1].colors) = 12
    /\ IsOk(out.last, "ImageData")

\* the blocks staged for the next frame
Staging(f) ==
    [graphic_control_ext |-> f.graphic_control_ext,
     image_desc |-> f.image_desc,
     local_color_table |-> f.local_color_table]

\* the block that the call just made was given
Arrived == env.data[out'.calls]

\* C24: a GraphicControl block arriving while a graphic control, an image
\* descriptor or a local color table is staged yields InvalidBlockSequence,
\* and so does an ImageDesc block arriving while an image descriptor is
\* staged; in both cases the arriving block is not staged.
C24_SequencingErrors ==
    [][(/\ out'.calls = out.calls + 1
        /\ \/ /\ Arrived.kind = "GraphicControl"
              /\ \/ frames.graphic_control_ext # <<>>
                 \/ frames.image_desc # <<>>
                 \/ frames.local_color_table # <<>>
           \/ /\ Arrived.kind = "ImageDesc"
              /\ frames.image_desc # <<>>)
        => /\ out'.last = Err("InvalidBlockSequence")
           /\ Staging(frames') = Staging(frames)]_vars

\* a graphic control arrived after an image descriptor and a local color
\* table and was refused; the two are still staged, it is not
C24_Witness ==
    /\ out.calls = 3
    /\ env.data[1].kind = "ImageDesc"
    /\ env.data[2].kind = "LocalColorTable"
    /\ env.data[3].kind = "GraphicControl"
    /\ out.hist = <<NoneRes, NoneRes, Err("InvalidBlockSequence")>>
    /\ Staging(frames) = [graphic_control_ext |-> <<>>,
                          image_desc |-> <<env.data[1]>>,
                          local_color_table |-> <<env.data[2]>>]

NoStaging ==
    [graphic_control_ext |-> <<>>, image_desc |-> <<>>,
     local_color_table |-> <<>>]

\* C25: when an ImageData block arrives with an ImageDesc staged the
\* assembler yields one Frame made of exactly the staged graphic control
\* (if any), that ImageDesc, the staged local color table (if any) and the
\* image data, and the staging area is empty afterwards; an ImageData block
\* arriving with no ImageDesc staged yields InvalidBlockSequence.  Frames are
\* yielded in the order their ImageData blocks occur: a frame is yielded
\* only by the call given an ImageData block, and holds that block.
C25_FrameAssembly ==
    [][out'.calls = out.calls + 1
        => /\ Arrived.kind = "ImageData"
                => IF frames.image_desc # <<>>
                   THEN /\ out'.last
                            = Ok([kind |-> "Frame",
                                  graphic_control_ext |->
                                      frames.graphic_control_ext,
                                  image_desc |-> frames.image_desc[1],
                                  local_color_table |->
                                      frames.local_color_table,
                                  image_data |-> Arrived])
                        /\ Staging(frames') = NoStaging
                   ELSE out'.last = Err("InvalidBlockSequence")
           /\ \A i \in 1..Len(out'.hist) :
                 IsOk(out'.hist[i], "Frame")
                    => /\ env.data[i].kind = "ImageData"
                       /\ out'.hist[i].block[1].image_data = env.data[i]]_vars

\* a frame with graphic control and local color table was yielded, then a
\* frame with neither: nothing was carried over
C25_Witness ==
    /\ out.calls = 5
    /\ IsOk(out.hist[3], "Frame")
    /\ out.hist[3].block[1].graphic_control_ext = <<env.data[1]>>
    /\ out.hist[3].block[1].image_desc = env.data[2]
    /\ IsOk(out.hist[5], "Frame")
    /\ out.hist[5].block[1].graphic_control_ext = <<>>
    /\ out.hist[5].block[1].image_desc = env.data[4]
    /\ out.hist[5].block[1].image_data = env.data[5]
    /\ out.hist[5].block[1].image_data # out.hist[3].block[1].image_data
    /\ Staging(frames) = NoStaging

\* the frame region lies inside a screen of the given size, the sums being
\* those of the integers
RegionInside(frame, width, height) ==
    /\ frame.image_desc.left + frame.image_desc.width <= width
    /\ frame.image_desc.top + frame.image_desc.height <= height

\* C26: the compositor paints a frame if and only if left + width <= screen
\* width and top + height <= screen height, the sums being computed without
\* 16-bit wrap-around (left = 65535, width = 2 is rejected); otherwise the
\* step fails with InvalidFrameDimensions.  A frame inside the screen never
\* fails with that error, and is painted unless another error stops it.
C26_RegionCheck ==
    [][(out'.calls = out.calls + 1 /\ out'.frame # <<>>)
        => IF RegionInside(out'.frame[1], rasters'.raster[1].width,
                           rasters'.raster[1].height)
           THEN /\ out'.last # Err("InvalidFrameDimensions")
                /\ out'.last.tag = "Ok"
                      => out'.last.block[1]
                           = PaintedOver(ScreenBefore(rasters, rasters'),
                                         out'.frame[1],
                                         TableOf(out'.frame[1],
                                                 rasters'.global_color_table))
           ELSE /\ out'.last = Err("InvalidFrameDimensions")
                /\ rasters'.raster = <<ScreenBefore(rasters, rasters')>>]_vars

\* a frame of width 2 at left 65535 was refused on a 2x2 screen
C26_Witness ==
    /\ out.frame # <<>>
    /\ out.frame[1].image_desc.left = 65535
    /\ out.frame[1].image_desc.width = 2
    /\ rasters.raster[1].width = 2
    /\ out.last = Err("InvalidFrameDimensions")

\* every byte of the frame's image data is an index i with 3*i + 2 below
\* the length of the table
AllIndicesBelow(frame, clrs) ==
    \A k \in 1..Len(ImageData_data(frame.image_data)) :
        3 * ImageData_data(frame.image_data)[k] + 2 < Len(clrs)

\* C27: while painting, a color index i is accepted if and only if 3*i + 2
\* is less than the byte length of the chosen color table (the local one if
\* present, else the global one, else MissingColorTable), so the three bytes
\* read for entry i lie inside the table; any other index makes the step
\* fail with InvalidColorIndex.
C27_ColorIndexCheck ==
    [][(/\ out'.calls = out.calls + 1
        /\ out'.frame # <<>>
        /\ out'.frame[1].image_desc.width > 0
        /\ RegionInside(out'.frame[1], rasters'.raster[1].width,
                        rasters'.raster[1].height))
        => IF /\ out'.frame[1].local_color_table = <<>>
              /\ rasters'.global_color_table = <<>>
           THEN out'.last = Err("MissingColorTable")
           ELSE IF AllIndicesBelow(out'.frame[1],
                                   TableOf(out'.frame[1],
                                           rasters'.global_color_table))
           THEN /\ out'.last.tag = "Ok"
                /\ out'.last.block[1]
                     = PaintedOver(ScreenBefore(rasters, rasters'),
                                   out'.frame[1],
                                   TableOf(out'.frame[1],
                                           rasters'.global_color_table))
           ELSE out'.last = Err("InvalidColorIndex")]_vars

\* the last entry of a local table of four colors was painted
C27_Witness ==
    /\ out.frame # <<>>
    /\ out.frame[1].local_color_table # <<>>
    /\ Len(out.frame[1].local_color_table[1].colors) = 12
    /\ ImageData_data(out.frame[1].image_data) = <<3>>
    /\ out.last.tag = "Ok"
    /\ out.last.block[1].pixels = <<<<4, 5, 6, 255>>>>

(***************************************************************************)
(* The decompressor's dictionary read as strings: the string of a code is  *)
(* the string of its parent followed by its own byte.  A code has a string *)
(* when it is in the table and its parent links lead down to a literal.    *)
(***************************************************************************)
RECURSIVE HasString(_, _)
HasString(t, c) ==
    /\ c >= 0
    /\ c < Len(t)
    /\ \/ t[c + 1].parent = None
       \/ /\ t[c + 1].parent < c
          /\ HasString(t, t[c + 1].parent)

RECURSIVE StringOf(_, _)
StringOf(t, c) ==
    IF t[c + 1].parent = None THEN <<t[c + 1].data>>
    ELSE Append(StringOf(t, t[c + 1].parent), t[c + 1].data)

\* the table after is the table before with one entry added, whose string is s
AddsEntry(before, after, s) ==
    /\ Len(after) = Len(before) + 1
    /\ SubSeq(after, 1, Len(before)) = before
    /\ HasString(after, Len(before))
    /\ StringOf(after, Len(before)) = s

\* the decompressor went from pre to post on the code c as the claim says
CodeResolution(pre, post, c) ==
    IF c < Len(pre.d.table)
    THEN /\ post.err = ""
         /\ HasString(pre.d.table, c)
         /\ HasString(pre.d.table, pre.d.last)
         /\ post.output = pre.output \o StringOf(pre.d.table, c)
         /\ AddsEntry(pre.d.table, post.d.table,
                      Append(StringOf(pre.d.table, pre.d.last),
                             StringOf(pre.d.table, c)[1]))
    ELSE IF c = Len(pre.d.table)
    THEN /\ post.err = ""
         /\ HasString(pre.d.table, pre.d.last)
         /\ AddsEntry(pre.d.table, post.d.table,
                      Append(StringOf(pre.d.table, pre.d.last),
                             StringOf(pre.d.table, pre.d.last)[1]))
         /\ post.output = pre.output \o StringOf(post.d.table, c)
    ELSE /\ post.err = "InvalidLzwData"
         /\ post.output = pre.output

\* the code handed to the decompressor in this step
Given == lzw'.codes[Len(lzw'.codes)]

\* a step that decodes a code other than clear and end after a previous code
ResolvesAfterLast ==
    /\ Len(lzw'.codes) = Len(lzw.codes) + 1
    /\ Given # clear_code(lzw.d)
    /\ Given # end_code(lzw.d)
    /\ lzw.d.last # None

\* C28: a code c that is neither clear nor end, received when a previous
\* code last exists and the next assignable code is n: for c < n the
\* decompressor appends string(c) to the output and adds the entry
\* string(last) + first byte of string(c); for c = n it adds the entry
\* string(last) + first byte of string(last) and appends that string; for
\* c > n it fails with InvalidLzwData and appends nothing.
C28_CodeResolution ==
    [][ResolvesAfterLast => CodeResolution(lzw, lzw', Given)]_vars

\* the same for the steps in which last, and c when it is below n, are
\* codes of the dictionary that have a string
CodeResolutionInDictionary ==
    [][(/\ ResolvesAfterLast
        /\ HasString(lzw.d.table, lzw.d.last)
        /\ Given < Len(lzw.d.table) => HasString(lzw.d.table, Given))
        => CodeResolution(lzw, lzw', Given)]_vars

\* the three cases after the codes 0, 6 (KwKwK: the string 0 0): the code 6
\* again, the code 8 = n, and the code 9 > n
KwKwKSeen ==
    /\ lzw.pc = "codes"
    /\ Len(lzw.codes) >= 2
    /\ lzw.codes[1] = 0
    /\ lzw.codes[2] = 6
    /\ lzw.output = <<0, 0, 0>>
    /\ Len(lzw.d.table) = 7

\* the end code is among the codes the decompressor was given
EndCodeRead == \E i \in 1..Len(lzw.codes) : lzw.codes[i] = end_code(lzw.d)

\* C29: once the decompressor has read the end code 2^m + 1, it appends no
\* further byte to the output and adds no entry to the dictionary, whatever
\* codes follow.
C29_EndCodeStops ==
    [][EndCodeRead => /\ lzw'.output = lzw.output
                      /\ Len(lzw'.d.table) <= Len(lzw.d.table)]_vars

\* the codes 1, end, 0 left the output 1 0 and an entry for the string 1 0
OutputAfterEnd ==
    /\ lzw.pc = "codes"
    /\ lzw.codes = <<1, 5, 0>>
    /\ lzw.output = <<1, 0>>
    /\ Len(lzw.d.table) = 7

\* C30: in every reachable state the dictionary holds at most 4096 entries
\* (codes 0..4095); growth that would exceed 4096 entries resets it to the
\* literals and the two sentinels.  Stated for the decompressor's table.
C30_DictionaryBound ==
    lzw.pc = "chunks" => Len(lzw.d.table) <= Bits_entries(Bits_MAX)

\* no code failed and the table outgrew the code space without a reset
GrownPastCodeSpace ==
    /\ lzw.pc = "chunks"
    /\ lzw.err = ""
    /\ Len(lzw.d.table) = Bits_entries(Bits_MAX) + 1
    /\ lzw.d.code_bits = Bits_MAX

(***************************************************************************)
(* The compressor's output read as a stream of bits, least significant bit *)
(* first: the bytes of the buffer, then the bits waiting in the compressor *)
(***************************************************************************)
ByteBit(b, i) == (b \div Pow2(i)) % 2

StreamBit(s, k) ==
    IF k < 8 * Len(s.buffer)
    THEN ByteBit(s.buffer[(k \div 8) + 1], k % 8)
    ELSE ByteBit(s.c.code, k - 8 * Len(s.buffer))

BitsOut(s) == 8 * Len(s.buffer) + s.c.n_bits

\* the number written in the w bits from position pos
RECURSIVE CodeAt(_, _, _)
CodeAt(s, pos, w) ==
    IF w = 0 THEN 0 ELSE StreamBit(s, pos) + 2 * CodeAt(s, pos + 1, w - 1)

\* the last code of the stream, w bits wide, is the clear code
ClearPackedLast(s, w) ==
    /\ BitsOut(s) >= w
    /\ CodeAt(s, BitsOut(s) - w, w) = clear_code(s.c)

\* the width of the codes and the next assignable code, on either side
WidthOf(l) == IF l.pc = "codes" THEN l.d.code_bits ELSE l.s.c.code_bits
NextCodeOf(l) == IF l.pc = "codes" THEN Len(l.d.table) ELSE Len(l.s.c.table)

\* the step read or packed a clear code
ClearCodeStep ==
    IF lzw.pc = "codes"
    THEN /\ Len(lzw'.codes) = Len(lzw.codes) + 1
         /\ Given = clear_code(lzw.d)
    ELSE /\ BitsOut(lzw'.s) >= BitsOut(lzw.s) + WidthOf(lzw)
         /\ ClearPackedLast(lzw'.s, WidthOf(lzw))

\* a step of the decompressor, or of the compressor other than a run
SingleStep == lzw.pc = "codes" \/ lzw'.fed <= lzw.fed + 1

\* the width stays in [m+1, 12], goes up by one and only with a new entry
\* that brings the next assignable code to `reach`, and goes down only to
\* m+1 at a clear code
WidthSteps(reach(_)) ==
    /\ WidthOf(lzw') >= lzw.m + 1
    /\ WidthOf(lzw') <= Bits_MAX
    /\ WidthOf(lzw') > WidthOf(lzw)
          => /\ WidthOf(lzw') = WidthOf(lzw) + 1
             /\ WidthOf(lzw) < Bits_MAX
             /\ NextCodeOf(lzw') = NextCodeOf(lzw) + 1
             /\ NextCodeOf(lzw') = reach(lzw)
    /\ WidthOf(lzw') < WidthOf(lzw)
          => /\ WidthOf(lzw') = lzw.m + 1
             /\ ClearCodeStep

\* C31 as stated: in the compressor and in the decompressor the code width
\* lies in [m+1, 12]; it increases only by 1 and only at the step where an
\* entry is added that brings the next assignable code to 2^width while
\* width < 12; it decreases only to m+1 and only at a clear code.
C31_WidthAsStated ==
    [][SingleStep => WidthSteps(LAMBDA l : Pow2(WidthOf(l)))]_vars

\* C31 amended: the same, but the compressor widens one entry later than the
\* decompressor: at the step where the entry added brings its next
\* assignable code to 2^width + 1, the code 2^width having been assigned.
C31_WidthMonotone ==
    [][SingleStep
          => WidthSteps(LAMBDA l : IF l.pc = "codes" THEN Pow2(WidthOf(l))
                                   ELSE Pow2(WidthOf(l)) + 1)]_vars

\* the compressor reached width 12, filled the dictionary, packed the clear
\* code and is back at width 9
C31_Witness ==
    /\ lzw.pc = "bytes"
    /\ lzw.feed = "spread"
    /\ lzw.fed > Bits_entries(Bits_MAX - 1)
    /\ lzw.s.c.code_bits = lzw.m + 1
    /\ Len(lzw.s.c.table) = clear_code(lzw.s.c) + 2
    /\ ClearPackedLast(lzw.s, Bits_MAX)

\* C32: when Compressor::compress returns, the stream starts with the clear
\* code and ends with the end code 2^m + 1, and every bit of it is in the
\* output bytes: no bit is left only in the compressor's bit buffer.
C32_OutputComplete ==
    lzw.pc = "done"
        => /\ CodeAt(lzw.s, 0, lzw.m + 1) = clear_code(lzw.s.c)
           /\ CodeAt(lzw.s, BitsOut(lzw.s) - lzw.s.c.code_bits,
                     lzw.s.c.code_bits) = end_code(lzw.s.c)
           /\ lzw.s.c.n_bits = 0

\* the same without the last conjunct: the codes are all packed, in the
\* bytes or in the bit buffer
PackedInOrder ==
    lzw.pc = "done"
        => /\ CodeAt(lzw.s, 0, lzw.m + 1) = clear_code(lzw.s.c)
           /\ CodeAt(lzw.s, BitsOut(lzw.s) - lzw.s.c.code_bits,
                     lzw.s.c.code_bits) = end_code(lzw.s.c)

(***************************************************************************)
(* A chain of sub-blocks read back: the sizes of the sub-blocks of w, or a *)
(* sequence holding -1 when w is not sub-blocks followed by one zero byte  *)
(* and nothing else                                                        *)
(***************************************************************************)
RECURSIVE SubBlockLens(_)
SubBlockLens(w) ==
    IF w = <<>> THEN <<-1>>
    ELSE IF w[1] = 0 THEN (IF Len(w) = 1 THEN <<>> ELSE <<-1>>)
    ELSE IF w[1] > 255 \/ Len(w) < 1 + w[1] THEN <<-1>>
    ELSE <<w[1]>> \o SubBlockLens(Drop(w, 1 + w[1]))

RECURSIVE Payloads(_)
Payloads(w) ==
    IF w = <<>> \/ w[1] = 0 THEN <<>>
    ELSE SubSeq(w, 2, 1 + w[1]) \o Payloads(Drop(w, 1 + w[1]))

\* w frames the bytes of payload: sizes in 1..255, all but the last 255
FramesPayload(w, payload) ==
    /\ \A i \in 1..Len(SubBlockLens(w)) :
          /\ SubBlockLens(w)[i] >= 1
          /\ SubBlockLens(w)[i] <= 255
          /\ i < Len(SubBlockLens(w)) => SubBlockLens(w)[i] = 255
    /\ Payloads(w) = payload
    /\ payload = <<>> => w = <<0>>

RECURSIVE Concat(_)
Concat(ss) == IF ss = <<>> THEN <<>> ELSE Head(ss) \o Concat(Tail(ss))

\* the bytes before the sub-blocks of an extension block, and its sub-blocks
Introducer(b) ==
    CASE b.kind = "PlainText" -> <<33, 1>>
      [] b.kind = "Comment" -> <<33, 254>>
      [] b.kind = "Application" -> <<33, 255>>
      [] b.kind = "Unknown" ->
            <<33>> \o (IF b.sub_blocks = <<>> THEN <<>> ELSE b.sub_blocks[1])

SubBlocksOf(b) ==
    CASE b.kind = "PlainText" -> b.sub_blocks
      [] b.kind = "Comment" -> b.comments
      [] b.kind = "Application" -> b.app_data
      [] b.kind = "Unknown" ->
            IF b.sub_blocks = <<>> THEN <<>> ELSE Tail(b.sub_blocks)

\* what was written for the block b
EmittedAsFramed(b, w) ==
    IF b.kind = "ImageData"
    THEN /\ Len(w) >= 2
         /\ w[1] >= 2
         /\ w[1] <= 8
         /\ FramesPayload(Tail(w),
                          Compressor_compress(Compressor_new(w[1]),
                                              ImageData_data(b), <<>>).buffer)
    ELSE /\ Take(w, Len(Introducer(b))) = Introducer(b)
         /\ SubBlockLens(Drop(w, Len(Introducer(b)))) =
               [i \in 1..Len(SubBlocksOf(b)) |-> Len(SubBlocksOf(b)[i])]
         /\ Payloads(Drop(w, Len(Introducer(b)))) = Concat(SubBlocksOf(b))
         /\ SubBlocksOf(b) = <<>> => w = Introducer(b) \o <<0>>

\* C33: ImageData emission writes the min_code_bits byte, then the
\* compressed stream in sub-blocks, each after its length byte, every
\* length in 1..255 and every sub-block but the last 255 bytes long, then
\* one zero byte; the payloads together are the compressor's output, and
\* with no compressed bytes only min_code_bits and the zero byte are
\* written.  Comment, Application, PlainText and Unknown blocks without
\* sub-blocks still end with the zero byte.
C33_SubBlockFraming ==
    /\ (env.kind = "emit" /\ enc.log # <<>>)
          => EmittedAsFramed(env.data[1], enc.e.writer)
    /\ lzw.pc = "written"
          => /\ enc.e.writer[1] = lzw.m
             /\ FramesPayload(Tail(enc.e.writer), lzw.s.buffer)

\* a compressed stream of more than two sub-blocks was written, the last
\* one shorter than 255 bytes
C33_Witness ==
    /\ lzw.pc = "written"
    /\ Len(lzw.s.buffer) > 510
    /\ Len(lzw.s.buffer) % 255 # 0
    /\ enc.e.writer[2] = 255
    /\ enc.e.writer[Len(enc.e.writer)] = 0

\* blocks without sub-blocks, and an image without compressed bytes
EmptyEmitted ==
    /\ env.kind = "emit"
    /\ enc.e.writer \in {<<33, 254, 0>>, <<33, 255, 0>>, <<33, 1, 0>>,
                         <<33, 0>>, <<2, 0>>}
(***************************************************************************)
(* C34: the global palette given to the step encoder.                      *)
(***************************************************************************)
\* the table stored by with_global_color_table
ConfiguredTable == enc.e.global_color_table

\* the file starts with a header and a logical screen descriptor whose flags
\* announce a global table of the configured size, followed by the bytes of
\* the configured table
GlobalTableWritten(w, g) ==
    /\ Len(w) >= 13 + Len(g.tbl[1].colors)
    /\ BitAnd(w[11], 128) = 128
    /\ BitAnd(w[11], 7) = ColorTableConfig_len_bits(g.cfg)
    /\ SubSeq(w, 14, 13 + Len(g.tbl[1].colors)) = g.tbl[1].colors

\* the image descriptor of the first frame: after the global table and the
\* graphic control extension of the step, if it has one
FirstDescAt(g, step) ==
    14 + Len(g.tbl[1].colors)
       + (IF step.graphic_control_ext = <<>> THEN 0 ELSE 8)

HasLocalTable(w, at) ==
    /\ Len(w) >= at + 9
    /\ w[at] = 44
    /\ BitAnd(w[at + 9], 128) = 128

\* C34: once a step encoder configured with with_global_color_table(P) has
\* written its preamble, the global color table in the file is P padded to
\* its declared length and the size code of the logical screen descriptor is
\* that of P, whatever the palette of the first step; and the first step
\* carries a local color table exactly when its palette differs from P
C34_GlobalPalette ==
    (ConfiguredTable.tbl # <<>> /\ Accepted(enc.log) # <<>>) =>
        /\ GlobalTableWritten(enc.e.frame_enc.writer, ConfiguredTable)
        /\ HasLocalTable(enc.e.frame_enc.writer,
                         FirstDescAt(ConfiguredTable, Accepted(enc.log)[1]))
             <=> (make_color_table(Accepted(enc.log)[1].palette).pal
                     # ConfiguredTable.tbl[1].colors)

\* what the code writes instead: the palette of the first step
FirstPaletteWritten ==
    (ConfiguredTable.tbl # <<>> /\ Accepted(enc.log) # <<>>) =>
        GlobalTableWritten(
            enc.e.frame_enc.writer,
            [cfg |-> make_color_table(Accepted(enc.log)[1].palette).cfg,
             tbl |-> <<GlobalColorTable_with_colors(
                         make_color_table(Accepted(enc.log)[1].palette).pal)>>])

(***************************************************************************)
(* C35: the codes packed in one step of the compressor, read back from the *)
(* bits the step appended                                                  *)
(***************************************************************************)
\* the codes the step packs, in order: the clear code at the start; the
\* prefix code when the byte was not found after it, then the clear code
\* when the dictionary was reset; the prefix code and the end code at the
\* end
CodesPacked ==
    LET prefix == IF lzw.s.code = None THEN <<>> ELSE <<lzw.s.code>> IN
    CASE lzw.pc = "start" -> <<clear_code(lzw.s.c)>>
      [] lzw'.pc = "done" -> prefix \o <<end_code(lzw.s.c)>>
      [] OTHER ->
            IF Len(lzw'.s.c.table) = Len(lzw.s.c.table) THEN <<>>
            ELSE prefix
                 \o (IF Len(lzw.s.c.table) = Bits_entries(Bits_MAX)
                     THEN <<clear_code(lzw.s.c)>> ELSE <<>>)

\* each of the codes is below 2^w and is read back whole from the w bits it
\* was given, after the bits that were there before
PackedWhole(codes, w) ==
    /\ BitsOut(lzw'.s) = BitsOut(lzw.s) + w * Len(codes)
    /\ \A k \in 1..Len(codes) :
          /\ codes[k] < Pow2(w)
          /\ CodeAt(lzw'.s, BitsOut(lzw.s) + w * (k - 1), w) = codes[k]

\* C35: every code the compressor packs is smaller than 2^width for the
\* width in force when it is packed and is found whole in the output bits;
\* at the 4096-entry boundary this holds for the prefix code and for the
\* clear code packed after it, both 12 bits wide
C35_CodesFit ==
    [][(lzw.pc \in {"start", "bytes"} /\ SingleStep)
          => PackedWhole(CodesPacked, lzw.s.c.code_bits)]_vars

\* the dictionary was just reset at the boundary: the last two codes of the
\* stream are a prefix code that needs 12 bits and the clear code
C35_Witness ==
    /\ lzw.pc = "bytes"
    /\ lzw.fed > Bits_entries(Bits_MAX - 1)
    /\ Len(lzw.s.c.table) = clear_code(lzw.s.c) + 2
    /\ BitsOut(lzw.s) >= 2 * Bits_MAX
    /\ CodeAt(lzw.s, BitsOut(lzw.s) - Bits_MAX, Bits_MAX) = clear_code(lzw.s.c)
    /\ CodeAt(lzw.s, BitsOut(lzw.s) - 2 * Bits_MAX, Bits_MAX)
          >= Bits_entries(Bits_MAX - 1)

(***************************************************************************)
(* C36: pieces against the whole                                           *)
(***************************************************************************)
\* one call of decompress on all the bytes handed over so far
WholeCall ==
    Decompressor_decompress(Decompressor_new(lzw.m),
                            Take(lzw.stream, lzw.consumed), <<>>)

\* C36: whatever the pieces a stream was handed over in, empty pieces and
\* single bytes included, the output, the error and the decompressor's
\* width, dictionary and bit buffer are those of one call of
\* Decompressor::decompress on the same bytes
C36_SplitIndependent ==
    lzw.pc = "split"
        => /\ lzw.output = WholeCall.buffer
           /\ lzw.err = WholeCall.err
           /\ lzw.d = WholeCall.d

\* a stream handed over in single bytes and an empty piece, in which the
\* width grew and bits are left in the bit buffer
C36_Witness ==
    /\ lzw.pc = "split"
    /\ lzw.consumed = Len(lzw.stream)
    /\ lzw.cuts = Len(lzw.stream)
    /\ lzw.cuts >= 3
    /\ lzw.empty
    /\ lzw.err = ""
    /\ lzw.d.code_bits > lzw.m + 1
    /\ lzw.d.n_bits > 0
    /\ Len(lzw.output) >= 3

\* a stream with an invalid code, handed over in pieces
SplitFailed ==
    /\ lzw.pc = "split"
    /\ lzw.err # ""
    /\ lzw.cuts >= 2

(***************************************************************************)
(* C37: what a FrameEnc has written, against its two flags                 *)
(***************************************************************************)
\* the number of encode_frame calls that were accepted
FramesAccepted ==
    Cardinality({i \in 1..Len(enc.log) :
                    enc.log[i].op = "frame" /\ enc.log[i].err = ""})

\* the blocks of a preamble and of frames, in file order
PreambleBlocks(p) ==
    <<p.header, p.logical_screen_desc>> \o p.global_color_table
        \o p.loop_count_ext \o p.comments

RECURSIVE FrameBlocks(_)
FrameBlocks(fs) ==
    IF fs = <<>> THEN <<>>
    ELSE Head(fs).graphic_control_ext \o <<Head(fs).image_desc>>
         \o Head(fs).local_color_table \o <<Head(fs).image_data>>
         \o FrameBlocks(Tail(fs))

\* the bytes written are those of nothing, or of the preamble, then of as
\* many frames as were accepted, then of the trailer if has_trailer is set
WrittenInOrder(e) ==
    IF ~e.has_preamble THEN e.writer = <<>>
    ELSE \E fs \in SeqsUpTo(FramesIn, FramesAccepted) :
            /\ Len(fs) = FramesAccepted
            /\ e.writer
                 = encode_each(<<>>,
                       PreambleBlocks(enc.preamble) \o FrameBlocks(fs)
                       \o (IF e.has_trailer THEN <<Trailer_default>>
                           ELSE <<>>))

\* the call just made was refused and left the encoder as it was
RefusedUntouched ==
    (/\ Len(enc'.log) = Len(enc.log) + 1
     /\ enc'.log[Len(enc'.log)].err = "InvalidBlockSequence")
        => enc'.e = enc.e

\* C37: after any sequence of encode_preamble, encode_frame and
\* encode_trailer calls on a FrameEnc, the blocks written form a prefix of
\* one preamble, any number of frames, one trailer; has_trailer implies
\* has_preamble; and a call that returns InvalidBlockSequence writes no
\* bytes and changes neither flag
C37_FrameEncInvariant ==
    /\ [](/\ WrittenInOrder(enc.e)
          /\ enc.e.has_trailer => enc.e.has_preamble)
    /\ [][RefusedUntouched]_vars

\* a whole file was written and a second preamble was refused
C37_Witness ==
    /\ Len(enc.log) = 4
    /\ enc.log[1] = [op |-> "preamble", err |-> ""]
    /\ enc.log[2] = [op |-> "frame", err |-> ""]
    /\ enc.log[3] = [op |-> "trailer", err |-> ""]
    /\ enc.log[4] = [op |-> "preamble", err |-> "InvalidBlockSequence"]
    /\ enc.e.has_trailer
    /\ enc.e.writer[Len(enc.e.writer)] = 59

(***************************************************************************)
(* C38: the setters of GraphicControl                                      *)
(***************************************************************************)
\* the getters other than the named one give what they gave before
OthersKept(mine) ==
    /\ mine = "disposal_method"
         \/ GraphicControl_disposal_method(env.gc)
              = GraphicControl_disposal_method(env.before)
    /\ mine = "user_input"
         \/ GraphicControl_user_input(env.gc)
              = GraphicControl_user_input(env.before)
    /\ mine = "transparent_color"
         \/ GraphicControl_transparent_color(env.gc)
              = GraphicControl_transparent_color(env.before)
    /\ env.gc.delay_time_cs = env.before.delay_time_cs

Got(mine) ==
    CASE mine = "disposal_method" -> GraphicControl_disposal_method(env.gc)
      [] mine = "user_input" -> GraphicControl_user_input(env.gc)
      [] mine = "transparent_color" ->
            GraphicControl_transparent_color(env.gc)

\* C38: starting from any flags value, after set_disposal_method(d),
\* set_user_input(u) or set_transparent_color(t) the getter of that field
\* gives the value that was set and the getters of the other fields and
\* delay_time_cs() give what they gave before
C38_SettersIndependent ==
    (env.kind = "control" /\ env.op # <<>>)
        => /\ Got(env.op[1]) = env.op[2]
           /\ OthersKept(env.op[1])

\* what the setters do keep: the delay, and a field that was set stays set
DelayKept ==
    (env.kind = "control" /\ env.op # <<>>)
        => env.gc.delay_time_cs = env.before.delay_time_cs

(***************************************************************************)
(* C39: the frame iterator after preamble(), against a frame iterator on   *)
(* which preamble() is never called                                        *)
(***************************************************************************)
\* the results of the first n calls of next() on a frame iterator
RECURSIVE PlainFrames(_, _, _)
PlainFrames(b, f, n) ==
    LET then(r) == <<r.res>> \o PlainFrames(r.b, r.f, n - 1)
    IN  IF n = 0 THEN <<>> ELSE then(Frames_next(b, f))

\* preamble() was called once, first, and next() ever since
PreambleThenNext ==
    /\ out.calls >= 1
    /\ out.ops[1] = "preamble"
    /\ \A i \in 2..Len(out.ops) : out.ops[i] = "next"

\* what next() is to yield after preamble(): what a fresh iterator yields,
\* without its first result when that is the error preamble() returned
ExpectedAfter(plain) ==
    IF out.hist[1].tag = "Err" /\ plain[1] = out.hist[1]
    THEN Tail(plain)
    ELSE Take(plain, out.calls - 1)

\* the first frame part of the input is a graphic control followed by an
\* image descriptor
ControlLeads ==
    \E i \in 1..(Len(env.kinds) - 1) :
        /\ env.kinds[i] = "GraphicControl"
        /\ env.kinds[i + 1] = "ImageDesc"
        /\ \A j \in 1..(i - 1) :
              env.kinds[j] \notin {"GraphicControl", "ImageDesc"}

PreambleFailedFirst ==
    /\ PreambleThenNext
    /\ out.calls >= 2
    /\ out.hist[1].tag = "Err"
    /\ out.hist[1].err # "InvalidBlockSequence"

(***************************************************************************)
(* C40: the persistent screen across a step that failed                    *)
(***************************************************************************)
\* the step applied a frame and failed with one of the compositor's errors
StepFailed ==
    /\ out'.calls = out.calls + 1
    /\ out'.last.tag = "Err"
    /\ out'.last.err \in {"InvalidFrameDimensions", "MissingColorTable",
                          "InvalidColorIndex"}

\* C40: when applying a frame fails with InvalidFrameDimensions,
\* MissingColorTable or InvalidColorIndex, the persistent screen raster is
\* pixel for pixel what it was before that frame, for every disposal method
C40_FailedStepUntouched ==
    [][StepFailed => rasters'.raster[1] = ScreenBefore(rasters, rasters')]_vars

\* the same for the two errors found before the first pixel is written
UntouchedBeforePainting ==
    [][(StepFailed /\ out'.last.err # "InvalidColorIndex")
          => rasters'.raster[1] = ScreenBefore(rasters, rasters')]_vars

====
